---- MODULE Spec2Model ----
(***************************************************************************)
(* A model of the YouTubeShortsBot repository:                             *)
(*   - the caption segmenter, the timing estimate and the caption clips    *)
(*     of VideoCreator (src/video_creator.py),                             *)
(*   - the story generator (src/story_generator.py),                       *)
(*   - the containerised renderer (src/ffmpeg_video_creator.py),           *)
(*   - the long story video pipeline (src/video_creator.py),               *)
(*   - the scheduled bot (src/main.py).                                    *)
(* Each component has its own specification over the shared variables;     *)
(* the components a specification does not run stay idle.                  *)
(***************************************************************************)
EXTENDS Integers, Sequences, FiniteSets, TLC

VARIABLES
    \* ---- caption section of _create_long_video_with_sync ----
    sentences,        \* sent_tokenize(story['story']): sequence of sentences
    target_duration,  \* audio_clip.duration, a float
    text_segments,    \* result of _split_text_into_segments
    timings,          \* result of _estimate_audio_timings
    text_clips,       \* the caption TextClips (start, duration)
    all_clips,        \* the clip list handed to CompositeVideoClip
    cpc               \* position in the caption section

capVars == <<sentences, target_duration, text_segments, timings, text_clips,
             all_clips, cpc>>

VARIABLES
    \* ---- StoryGenerator ----
    sg_key,         \* self.gemini_api_key is set
    sg_type,        \* story_type of get_story: "short" or "long"
    sg_pc,          \* position in get_story
    sg_response,    \* the last generate_content outcome
    sg_story_data,  \* story_data, the parsed response
    sg_result,      \* what get_story returned or raised
    sg_failed,      \* the text generation step failed
    sg_requests     \* generate_content requests issued

sgVars == <<sg_key, sg_type, sg_pc, sg_response, sg_story_data, sg_result,
            sg_failed, sg_requests>>

VARIABLES
    \* ---- FFMPEGVideoCreator.create_video ----
    ff_exists,        \* os.path.exists of the three input files
    ff_env,           \* os.environ['ENV'], or "unset"
    ff_duration_arg,  \* the caller's duration argument
    ff_pc,            \* position in create_video
    ff_voice_info,    \* what get_media_info(voiceover) returned
    ff_duration,      \* the local variable duration
    ff_cmd,           \* the ffmpeg command
    ff_probe_calls,   \* ffprobe processes asked for
    ff_render_calls,  \* ffmpeg processes asked for
    ff_render,        \* how the render went
    ff_result         \* what create_video returned or raised

ffVars == <<ff_exists, ff_env, ff_duration_arg, ff_pc, ff_voice_info,
            ff_duration, ff_cmd, ff_probe_calls, ff_render_calls, ff_render,
            ff_result>>

VARIABLES
    \* ---- VideoCreator.create_short_video / create_long_story_video ----
    vc_method,           \* "short" or "long"
    vc_azure_key,        \* self.azure_key is set
    vc_videos,           \* os.listdir(self.background_videos_folder)
    vc_audios,           \* os.listdir(self.audios_folder)
    vc_pc,               \* position in the method
    vc_tts,              \* how speech synthesis went
    vc_temp_audio,       \* the temporary narration file exists
    vc_narration_path,   \* audio_path of create_long_story_video
    vc_background_path,  \* the background video selected
    vc_audio_path,       \* the audio track selected
    vc_error,            \* the message of the exception caught
    vc_compositions,     \* compositions started
    vc_result            \* what the method returned

vcVars == <<vc_method, vc_azure_key, vc_videos, vc_audios, vc_pc, vc_tts,
            vc_temp_audio, vc_narration_path, vc_background_path,
            vc_audio_path, vc_error, vc_compositions, vc_result>>

VARIABLES
    \* ---- YouTubeShortsBot (src/main.py) ----
    font_path_set,   \* os.getenv('FONT_PATH') is not None
    secrets_exists,  \* the client secrets file exists
    bot_videos,      \* os.listdir(self.background_videos_folder)
    bot_audios,      \* os.listdir(self.audios_folder)
    token_file,      \* the token file: "absent", "corrupt" or the
                     \* credentials pickled in it
    disk_videos,     \* rendered videos lying in the output folder
    bot_pc,          \* position of the main program
    ticks,           \* passes of the scheduler loop that have slept
    pending,         \* due jobs run_pending has still to run
    in_progress,     \* calls of generate_and_upload_short that have not
                     \* returned
    job_pc,          \* position in generate_and_upload_short
    story,           \* what get_story returned
    video_path,      \* video_path of generate_and_upload_short
    creds,           \* creds of get_authenticated_service
    yt_svc,          \* what get_authenticated_service returned
    upload_chunks,   \* next_chunk calls of the upload in progress
    success,         \* what upload_to_youtube returned
    job_result,      \* what generate_and_upload_short returned
    job_log          \* what happened in the job: a set of events

botEnv == <<font_path_set, secrets_exists, bot_videos, bot_audios>>
jobVars == <<job_pc, story, video_path, creds, yt_svc, upload_chunks,
             success,
             job_result, job_log>>
botVars == <<botEnv, token_file, disk_videos, bot_pc, ticks, pending,
             in_progress, jobVars>>

VARIABLES
    \* ---- the compositors of VideoCreator (src/video_creator.py) ----
    cmp_form,        \* "short" (_create_short_with_assets) or "long"
                     \* (_create_long_video_with_sync)
    cmp_source,      \* the background video file: width, height, duration
    cmp_audio_src,   \* duration of the audio file (track or narration)
    cmp_requested,   \* clip_duration of the short form
    cmp_pc,          \* position in the compositor
    cmp_background,  \* the clip background
    cmp_audio,       \* the clip audio_clip
    cmp_final        \* the exported video, or what the call returned

cmpVars == <<cmp_form, cmp_source, cmp_audio_src, cmp_requested, cmp_pc,
             cmp_background, cmp_audio, cmp_final>>

VARIABLES
    \* ---- the platform uploaders (src/platform_uploaders.py) ----
    up_platform,     \* "Facebook" or "Instagram"
    up_access_token, \* self.access_token is set
    up_account,      \* self.page_id / self.account_id is set
    up_file_exists,  \* os.path.exists(video_path)
    up_page_token,   \* self.page_access_token: "None" or "token"
    up_pc,           \* position in upload
    up_start_offset, \* start_offset of the upload in progress
    up_end_offset,   \* end_offset of the upload in progress
    up_requests,     \* the HTTP requests sent, in order
    up_responses,    \* the response to each of them
    up_result        \* what upload returned

upVars == <<up_platform, up_access_token, up_account, up_file_exists,
            up_page_token, up_pc, up_start_offset, up_end_offset,
            up_requests, up_responses, up_result>>

VARIABLES
    \* ---- YouTubeUploader (src/platform_uploaders.py) ----
    ytu_token_file,     \* the token file: "absent", "corrupt" or the state
                        \* of the credentials pickled in it
    ytu_secrets_exists, \* os.path.exists(self.secrets_file)
    ytu_removable,      \* os.remove(self.token_file) can succeed
    ytu_video_exists,   \* video_path is a readable file
    ytu_story_ok,       \* story is a mapping
    ytu_pc,             \* position in upload / get_authenticated_service
    ytu_creds,          \* creds: "None" or the state of the credentials
    ytu_service,        \* what get_authenticated_service returned: "none"
                        \* before it returns, "None", or the state of the
                        \* credentials the service was built with
    ytu_log,            \* what the call has done so far
    ytu_requests,       \* upload requests sent (request.next_chunk())
    ytu_result          \* what upload returned

ytuInputs == <<ytu_secrets_exists, ytu_removable, ytu_video_exists,
               ytu_story_ok>>
ytuVars == <<ytu_token_file, ytuInputs, ytu_pc, ytu_creds, ytu_service,
             ytu_log, ytu_requests, ytu_result>>

vars == <<capVars, sgVars, ffVars, vcVars, botVars, cmpVars, upVars,
          ytuVars>>

\* the variables of the other components
notCap == <<sgVars, ffVars, vcVars, botVars, cmpVars, upVars,
    ytuVars>>
notStory == <<capVars, ffVars, vcVars, botVars, cmpVars, upVars,
    ytuVars>>
notFF == <<capVars, sgVars, vcVars, botVars, cmpVars, upVars,
    ytuVars>>
notVC == <<capVars, sgVars, ffVars, botVars, cmpVars, upVars,
    ytuVars>>
notBot == <<capVars, sgVars, ffVars, vcVars, cmpVars, upVars,
    ytuVars>>
notCmp == <<capVars, sgVars, ffVars, vcVars, botVars, upVars,
    ytuVars>>
notUp == <<capVars, sgVars, ffVars, vcVars, botVars, cmpVars, ytuVars>>
notYtu == <<capVars, sgVars, ffVars, vcVars, botVars, cmpVars, upVars>>

-----------------------------------------------------------------------------
(* Bounds of the model *)

\* significand bits of the modelled binary floating point (Python: 53)
MantissaBits == 8
\* longest story text, in sentences
MaxSentences == 3
\* passes of the scheduler loop
MaxTicks == 2
\* jobs that are due at one run_pending
MaxDue == 2
\* next_chunk calls one upload takes
MaxChunks == 2
\* largest offset the video server returns
MaxOffset == 2
\* transfer requests of one Facebook upload
MaxTransfers == 2

(* Program constants *)

WRAP_WIDTH == 35
MAX_LINES == 4
TITLE_SECONDS == 3

-----------------------------------------------------------------------------
(* Python floats: binary floating point, round to nearest, ties to even.   *)
(* A float is m * 2^e with 2^(MantissaBits-1) <= |m| < 2^MantissaBits,      *)
(* or zero.  The exponent range is not bounded.                            *)

RECURSIVE Pow2(_)
Pow2(k) == IF k <= 0 THEN 1 ELSE 2 * Pow2(k - 1)

Abs(x) == IF x < 0 THEN -x ELSE x
Sign(x) == IF x < 0 THEN -1 ELSE IF x > 0 THEN 1 ELSE 0

FlZero == [m |-> 0, e |-> 0]

\* the float nearest to (n / d) * 2^e, for n >= 0 and d > 0
RECURSIVE FlRoundPos(_, _, _)
FlRoundPos(n, d, e) ==
    IF n = 0 THEN FlZero
    ELSE IF n >= d * Pow2(MantissaBits) THEN FlRoundPos(n, 2 * d, e + 1)
    ELSE IF n < d * Pow2(MantissaBits - 1) THEN FlRoundPos(2 * n, d, e - 1)
    ELSE LET q == n \div d
             r == n % d
             up == 2 * r > d \/ (2 * r = d /\ q % 2 = 1)
             m == IF up THEN q + 1 ELSE q
         IN  IF m = Pow2(MantissaBits)
             THEN [m |-> Pow2(MantissaBits - 1), e |-> e + 1]
             ELSE [m |-> m, e |-> e]

FlNeg(x) == [m |-> -x.m, e |-> x.e]

\* the float nearest to (n / d) * 2^e, for d > 0
FlRound(n, d, e) ==
    IF n < 0 THEN FlNeg(FlRoundPos(-n, d, e)) ELSE FlRoundPos(n, d, e)

\* float(n) of a Python int
FlFromInt(n) == FlRound(n, 1, 0)

\* a / b of two Python ints (true division, correctly rounded); b # 0
FlDivInt(a, b) == FlRound(a * Sign(b), Abs(b), 0)

\* x * y
FlMul(x, y) == FlRound(x.m * y.m, 1, x.e + y.e)

\* exact dyadic numbers [m, e] (not rounded): sum, difference, sign
DyAdd(x, y) ==
    LET e == IF x.e < y.e THEN x.e ELSE y.e
    IN  [m |-> x.m * Pow2(x.e - e) + y.m * Pow2(y.e - e), e |-> e]

DySub(x, y) == DyAdd(x, FlNeg(y))

DyLess(x, y) == DySub(x, y).m < 0
DyLeq(x, y) == DySub(x, y).m <= 0
DyEq(x, y) == DySub(x, y).m = 0

\* x + y and x - y, rounded
FlAdd(x, y) == LET s == DyAdd(x, y) IN FlRound(s.m, 1, s.e)
FlSub(x, y) == LET s == DySub(x, y) IN FlRound(s.m, 1, s.e)

-----------------------------------------------------------------------------
(* Strings.  A text is a sequence of words separated by single spaces; a   *)
(* word is given by its length.                                            *)

RECURSIVE SumSeq(_)
SumSeq(s) == IF s = <<>> THEN 0 ELSE Head(s) + SumSeq(Tail(s))

\* len(s) of a string of words joined by single spaces
StrLen(words) == IF words = <<>> THEN 0 ELSE SumSeq(words) + Len(words) - 1

\* ' '.join(list of strings)
RECURSIVE Join(_)
Join(strs) == IF strs = <<>> THEN <<>> ELSE Head(strs) \o Join(Tail(strs))

\* the chunks textwrap splits a string into: words and whitespace runs
RECURSIVE Chunks(_)
Chunks(words) ==
    IF words = <<>> THEN <<>>
    ELSE IF Len(words) = 1 THEN <<[len |-> Head(words), ws |-> FALSE]>>
    ELSE <<[len |-> Head(words), ws |-> FALSE], [len |-> 1, ws |-> TRUE]>>
         \o Chunks(Tail(words))

\* the inner loop of TextWrapper._wrap_chunks: move chunks to the current
\* line while they fit; returns the rest and the line's length and last chunk
RECURSIVE FillLine(_, _, _, _)
FillLine(chunks, cur_len, cur_n, last_ws) ==
    IF chunks # <<>> /\ cur_len + Head(chunks).len <= WRAP_WIDTH
    THEN FillLine(Tail(chunks), cur_len + Head(chunks).len, cur_n + 1,
                  Head(chunks).ws)
    ELSE [chunks |-> chunks, cur_len |-> cur_len, cur_n |-> cur_n,
          last_ws |-> last_ws]

\* TextWrapper._wrap_chunks (drop_whitespace, break_long_words): the number
\* of lines produced from the chunks, after the given number of lines
RECURSIVE WrapChunks(_, _)
WrapChunks(chunks, lines) ==
    IF chunks = <<>> THEN lines
    ELSE LET start == IF Head(chunks).ws /\ lines > 0 THEN Tail(chunks)
                      ELSE chunks
             f == FillLine(start, 0, 0, FALSE)
             long == f.chunks # <<>> /\ Head(f.chunks).len > WRAP_WIDTH
             space_left == WRAP_WIDTH - f.cur_len
             rest == IF long
                     THEN <<[len |-> Head(f.chunks).len - space_left,
                             ws |-> Head(f.chunks).ws]>> \o Tail(f.chunks)
                     ELSE f.chunks
             cur_n == IF long THEN f.cur_n + 1 ELSE f.cur_n
             last_ws == IF long THEN FALSE ELSE f.last_ws
             kept == IF cur_n > 0 /\ last_ws THEN cur_n - 1 ELSE cur_n
         IN  WrapChunks(rest, IF kept > 0 THEN lines + 1 ELSE lines)

\* len(textwrap.fill(s, width=35).split('\n'))
WrappedLines(words) ==
    LET n == WrapChunks(Chunks(words), 0) IN IF n = 0 THEN 1 ELSE n

-----------------------------------------------------------------------------
(* VideoCreator: caption segmenter and timing estimate                     *)

\* the loop of _split_text_into_segments; returns the sentence lists
\* (current_segment) in the order they are joined and appended to segments
RECURSIVE SplitLoop(_, _, _, _, _)
SplitLoop(rest, groups, current_segment, current_lines, max_lines) ==
    IF rest = <<>>
    THEN IF current_segment # <<>> THEN Append(groups, current_segment)
         ELSE groups
    ELSE LET sentence == Head(rest)
             sentence_lines == WrappedLines(sentence)
         IN  IF current_lines + sentence_lines > max_lines
                /\ current_segment # <<>>
             THEN SplitLoop(Tail(rest), Append(groups, current_segment),
                            <<sentence>>, sentence_lines, max_lines)
             ELSE SplitLoop(Tail(rest), groups,
                            Append(current_segment, sentence),
                            current_lines + sentence_lines, max_lines)

\* a splitter that compares the sentence alone with the budget, forgetting
\* the lines already in the current segment
RECURSIVE SplitLoopForgetsCurrent(_, _, _, _, _)
SplitLoopForgetsCurrent(rest, groups, current_segment, current_lines,
                        max_lines) ==
    IF rest = <<>>
    THEN IF current_segment # <<>> THEN Append(groups, current_segment)
         ELSE groups
    ELSE LET sentence == Head(rest)
             sentence_lines == WrappedLines(sentence)
         IN  IF sentence_lines > max_lines /\ current_segment # <<>>
             THEN SplitLoopForgetsCurrent(Tail(rest),
                      Append(groups, current_segment), <<sentence>>,
                      sentence_lines, max_lines)
             ELSE SplitLoopForgetsCurrent(Tail(rest), groups,
                      Append(current_segment, sentence),
                      current_lines + sentence_lines, max_lines)

SplitSentenceGroupsForgetsCurrent(sents, max_lines) ==
    SplitLoopForgetsCurrent(sents, <<>>, <<>>, 0, max_lines)

\* a splitter that forgets the lines of the sentence that opens a segment
RECURSIVE SplitLoopResetsLines(_, _, _, _, _)
SplitLoopResetsLines(rest, groups, current_segment, current_lines,
                     max_lines) ==
    IF rest = <<>>
    THEN IF current_segment # <<>> THEN Append(groups, current_segment)
         ELSE groups
    ELSE LET sentence == Head(rest)
             sentence_lines == WrappedLines(sentence)
         IN  IF current_lines + sentence_lines > max_lines
                /\ current_segment # <<>>
             THEN SplitLoopResetsLines(Tail(rest),
                      Append(groups, current_segment), <<sentence>>,
                      0, max_lines)
             ELSE SplitLoopResetsLines(Tail(rest), groups,
                      Append(current_segment, sentence),
                      current_lines + sentence_lines, max_lines)

SplitSentenceGroupsResetsLines(sents, max_lines) ==
    SplitLoopResetsLines(sents, <<>>, <<>>, 0, max_lines)

\* a splitter that closes a segment as soon as it is full
RECURSIVE SplitLoopClosesEarly(_, _, _, _, _)
SplitLoopClosesEarly(rest, groups, current_segment, current_lines,
                     max_lines) ==
    IF rest = <<>>
    THEN IF current_segment # <<>> THEN Append(groups, current_segment)
         ELSE groups
    ELSE LET sentence == Head(rest)
             sentence_lines == WrappedLines(sentence)
         IN  IF current_lines + sentence_lines >= max_lines
                /\ current_segment # <<>>
             THEN SplitLoopClosesEarly(Tail(rest),
                      Append(groups, current_segment), <<sentence>>,
                      sentence_lines, max_lines)
             ELSE SplitLoopClosesEarly(Tail(rest), groups,
                      Append(current_segment, sentence),
                      current_lines + sentence_lines, max_lines)

SplitSentenceGroupsClosesEarly(sents, max_lines) ==
    SplitLoopClosesEarly(sents, <<>>, <<>>, 0, max_lines)

\* a splitter without the final append of the remaining segment
SplitSentenceGroupsDropsRest(sents, max_lines) ==
    LET g == SplitLoop(sents, <<>>, <<>>, 0, max_lines)
    IN  SubSeq(g, 1, Len(g) - 1)

\* the sentences of each segment, in order
SplitSentenceGroups(sents, max_lines) ==
    SplitLoop(sents, <<>>, <<>>, 0, max_lines)

\* _split_text_into_segments(text, max_lines), on the sentences of text
SplitTextIntoSegments(sents, max_lines) ==
    LET g == SplitSentenceGroups(sents, max_lines)
    IN  [i \in 1..Len(g) |-> Join(g[i])]

\* sum(len(segment) for segment in text_segments)
TotalChars(segs) == SumSeq([i \in 1..Len(segs) |-> StrLen(segs[i])])

\* the loop of _estimate_audio_timings
RECURSIVE TimingLoop(_, _, _, _, _)
TimingLoop(rest, total_chars, total_duration, acc, current_time) ==
    IF rest = <<>> THEN [raised |-> "none", value |-> acc]
    ELSE IF total_chars = 0
    THEN [raised |-> "ZeroDivisionError", value |-> <<>>]
    ELSE LET segment_duration ==
                 FlMul(FlDivInt(StrLen(Head(rest)), total_chars),
                       total_duration)
             end_time == FlAdd(current_time, segment_duration)
         IN  TimingLoop(Tail(rest), total_chars, total_duration,
                        Append(acc, <<current_time, end_time>>), end_time)

\* an estimate whose character total also counts the spaces between segments
EstimateCountingSeparators(segs, total_duration) ==
    TimingLoop(segs, TotalChars(segs) + Len(segs) - 1, total_duration, <<>>,
               FlFromInt(0))

\* an estimate that divides by the character total before the loop
EstimateDividingFirst(segs, total_duration) ==
    IF TotalChars(segs) = 0
    THEN [raised |-> "ZeroDivisionError", value |-> <<>>]
    ELSE TimingLoop(segs, TotalChars(segs), total_duration, <<>>,
                    FlFromInt(0))

\* _estimate_audio_timings(text_segments, total_duration)
EstimateAudioTimings(segs, total_duration) ==
    TimingLoop(segs, TotalChars(segs), total_duration, <<>>, FlFromInt(0))

\* story_duration = target_duration - 3
StoryDuration(td) == FlSub(td, FlFromInt(TITLE_SECONDS))

\* a caption TextClip: .with_start(start_time + 3)
\*                     .with_duration(end_time - start_time)
CaptionClip(timing) ==
    LET start == FlAdd(timing[1], FlFromInt(TITLE_SECONDS))
        duration == FlSub(timing[2], timing[1])
    IN  [start |-> start, duration |-> duration,
         end |-> FlAdd(start, duration)]

-----------------------------------------------------------------------------
(* Inputs of the caption section *)

\* sentences as sent_tokenize returns them: never empty; by word lengths
Sentences ==
    { <<8>>, <<17, 17>>, <<30, 30>>, <<80>>, <<30, 80>>, <<80, 80>> }

RECURSIVE SeqsUpTo(_, _)
SeqsUpTo(S, n) ==
    IF n = 0 THEN { <<>> }
    ELSE LET shorter == SeqsUpTo(S, n - 1)
         IN  shorter \cup { Append(t, x) : t \in shorter, x \in S }

Texts == SeqsUpTo(Sentences, MaxSentences)

\* narration lengths in seconds
Durations == {2, 3, 4, 10, 65}

InitCaption ==
    /\ sentences \in Texts
    /\ target_duration \in { FlFromInt(d) : d \in Durations }
    /\ text_segments = <<>>
    /\ timings = <<>>
    /\ text_clips = <<>>
    /\ all_clips = <<>>
    /\ cpc = "split"

IdleCaption ==
    /\ sentences = <<>>
    /\ target_duration = FlZero
    /\ text_segments = <<>>
    /\ timings = <<>>
    /\ text_clips = <<>>
    /\ all_clips = <<>>
    /\ cpc = "idle"

\* text_segments = self._split_text_into_segments(story['story'])
SplitStory ==
    /\ cpc = "split"
    /\ text_segments' = SplitTextIntoSegments(sentences, MAX_LINES)
    /\ cpc' = "estimate"
    /\ UNCHANGED <<sentences, target_duration, timings, text_clips, all_clips>>
    /\ UNCHANGED notCap

\* timings = self._estimate_audio_timings(text_segments, story_duration)
EstimateTimings ==
    /\ cpc = "estimate"
    /\ LET r == EstimateAudioTimings(text_segments,
                                     StoryDuration(target_duration))
       IN  /\ timings' = r.value
           /\ cpc' = IF r.raised = "none" THEN "clips" ELSE "raised"
    /\ UNCHANGED <<sentences, target_duration, text_segments, text_clips,
                   all_clips>>
    /\ UNCHANGED notCap

\* for i, (segment, (start_time, end_time)) in enumerate(zip(...)):
\*     text_clips.append(TextClip(...))
CreateTextClips ==
    /\ cpc = "clips"
    /\ text_clips' =
           LET n == IF Len(text_segments) < Len(timings)
                    THEN Len(text_segments) ELSE Len(timings)
           IN  [i \in 1..n |-> CaptionClip(timings[i])]
    /\ cpc' = "compose"
    /\ UNCHANGED <<sentences, target_duration, text_segments, timings,
                   all_clips>>
    /\ UNCHANGED notCap

\* all_clips = [background, title_clip] + text_clips
ComposeClips ==
    /\ cpc = "compose"
    /\ all_clips' = <<"background", "title_clip">>
                    \o [i \in 1..Len(text_clips) |-> "text_clip"]
    /\ cpc' = "composed"
    /\ UNCHANGED <<sentences, target_duration, text_segments, timings,
                   text_clips>>
    /\ UNCHANGED notCap

NextCaption ==
    \/ SplitStory
    \/ EstimateTimings
    \/ CreateTextClips
    \/ ComposeClips


-----------------------------------------------------------------------------
(* StoryGenerator (src/story_generator.py)                                 *)
(* A response text is a sequence of characters; "bq" is the backquote.     *)
(* A whole JSON document is                                                *)
(* one symbol: "D" a story of 650 words, "d" a story of 120 words, "N" an  *)
(* object without a 'story' key, "L" a JSON list.                          *)

NUM_FALLBACK_STORIES == 23
MIN_LONG_WORDS == 400

Fence == <<"bq", "bq", "bq", "j", "s", "o", "n">>
CloseFence == <<"bq", "bq", "bq">>

JsonDocs == {"D", "d", "N", "L"}
JsonWhitespace == {" ", "\n"}

\* s.startswith(prefix)
StartsWith(s, prefix) ==
    Len(s) >= Len(prefix) /\ SubSeq(s, 1, Len(prefix)) = prefix

\* s[a:-b]
SliceBetween(s, a, b) == SubSeq(s, a + 1, Len(s) - b)

\* if story_json.startswith(FENCE): story_json = story_json[7:-3], where
\* FENCE is three backquotes and json
StripFence(s) == IF StartsWith(s, Fence) THEN SliceBetween(s, 7, 3) ELSE s

RECURSIVE LStrip(_)
LStrip(s) ==
    IF s # <<>> /\ Head(s) \in JsonWhitespace THEN LStrip(Tail(s)) ELSE s

RECURSIVE RStrip(_)
RStrip(s) ==
    IF s # <<>> /\ s[Len(s)] \in JsonWhitespace
    THEN RStrip(SubSeq(s, 1, Len(s) - 1)) ELSE s

\* json.loads(s): whitespace around one document is skipped; anything else
\* raises JSONDecodeError
JsonLoads(s) ==
    LET body == RStrip(LStrip(s))
    IN  IF Len(body) = 1 /\ body[1] \in JsonDocs
        THEN [raised |-> FALSE, doc |-> body[1]]
        ELSE [raised |-> TRUE, doc |-> "none"]

\* story_data['story'] can be read
HasStory(doc) == doc \in {"D", "d"}

\* len(story_data['story'].split())
WordCount(doc) == IF doc = "D" THEN 650 ELSE 120

\* response.text of the generation responses considered; None is NoText
NoText == <<"None">>
ResponseTexts ==
    { <<"D">>, <<"d">>, <<"N">>, <<"L">>,
      Fence \o <<"\n", "D", "\n">> \o CloseFence,
      Fence \o <<"\n", "d", "\n">> \o CloseFence,
      Fence \o <<"d">> \o CloseFence \o <<"\n">>,
      Fence \o <<"\n", "D", "\n">> \o CloseFence \o <<"\n">>,
      <<"x">>, <<>>, NoText }

NoResponse == [raised |-> FALSE, text |-> <<>>]
GenerateOutcomes ==
    { [raised |-> TRUE, text |-> <<>>] }
    \cup { [raised |-> FALSE, text |-> t] : t \in ResponseTexts }

NoResult == [kind |-> "none", value |-> "none"]
Raised(e) == [kind |-> "raised", value |-> e]
Returned(v) == [kind |-> "returned", value |-> v]

\* self.fallback_stories = constants.FALLBACK_STORIES
FallbackStories == { <<"fallback", i>> : i \in 1..NUM_FALLBACK_STORIES }
\* constants defines no FALLBACK_LONG_STORIES: hasattr(...) is false
FallbackLongStories == {}
TheLastSignal == <<"fallback_long", 0>>

\* get_fallback_story: random.choice(self.fallback_stories)
GetFallbackStory == FallbackStories

\* get_fallback_long_story
GetFallbackLongStory ==
    IF FallbackLongStories = {} THEN {TheLastSignal} ELSE FallbackLongStories

\* the fallback of the tier
TierFallback(story_type) ==
    IF story_type = "long" THEN GetFallbackLongStory ELSE GetFallbackStory

InitStory ==
    /\ sg_key \in BOOLEAN
    /\ sg_type \in {"short", "long"}
    /\ sg_pc = "key_check"
    /\ sg_response = NoResponse
    /\ sg_story_data = "none"
    /\ sg_result = NoResult
    /\ sg_failed = FALSE
    /\ sg_requests = 0

IdleStory ==
    /\ sg_key = FALSE
    /\ sg_type = "short"
    /\ sg_pc = "idle"
    /\ sg_response = NoResponse
    /\ sg_story_data = "none"
    /\ sg_result = NoResult
    /\ sg_failed = FALSE
    /\ sg_requests = 0

\* if not self.gemini_api_key: return self.get_fallback_story()
CheckApiKey ==
    /\ sg_pc = "key_check"
    /\ IF sg_key
       THEN sg_pc' = "client" /\ UNCHANGED sg_result
       ELSE /\ sg_pc' = "done"
            /\ \E f \in TierFallback(sg_type) : sg_result' = Returned(f)
    /\ UNCHANGED <<sg_key, sg_type, sg_response, sg_story_data, sg_failed,
                   sg_requests>>
    /\ UNCHANGED notStory

\* client = genai.Client(api_key=...), before the try block: an exception
\* leaves get_story
ConstructClient ==
    /\ sg_pc = "client"
    /\ \E ok \in BOOLEAN :
           IF ok
           THEN sg_pc' = "generate" /\ UNCHANGED <<sg_result, sg_failed>>
           ELSE /\ sg_pc' = "done"
                /\ sg_result' = Raised("Exception")
                /\ sg_failed' = TRUE
    /\ UNCHANGED <<sg_key, sg_type, sg_response, sg_story_data, sg_requests>>
    /\ UNCHANGED notStory

\* response = client.models.generate_content(...)
GenerateContent ==
    /\ sg_pc = "generate"
    /\ \E r \in GenerateOutcomes :
           /\ sg_response' = r
           /\ sg_pc' = IF r.raised THEN "except" ELSE "parse"
    /\ sg_requests' = sg_requests + 1
    /\ UNCHANGED <<sg_key, sg_type, sg_story_data, sg_result, sg_failed>>
    /\ UNCHANGED notStory

\* story_json = response.text; strip the fence; story_data = json.loads(...)
\* short: return story_data
ParseResponse ==
    /\ sg_pc = "parse"
    /\ IF sg_response.text = NoText
       THEN sg_pc' = "except" /\ UNCHANGED <<sg_story_data, sg_result>>
       ELSE LET parsed == JsonLoads(StripFence(sg_response.text))
            IN  IF parsed.raised
                THEN sg_pc' = "except" /\ UNCHANGED <<sg_story_data, sg_result>>
                ELSE /\ sg_story_data' = parsed.doc
                     /\ IF sg_type = "long"
                        THEN sg_pc' = "validate" /\ UNCHANGED sg_result
                        ELSE /\ sg_pc' = "done"
                             /\ sg_result' = Returned(<<"parsed", parsed.doc>>)
    /\ UNCHANGED <<sg_key, sg_type, sg_response, sg_failed, sg_requests>>
    /\ UNCHANGED notStory

\* except Exception as e: return self.get_fallback_story()
\*                        (long: get_fallback_long_story())
ExceptFallback ==
    /\ sg_pc = "except"
    /\ \E f \in TierFallback(sg_type) : sg_result' = Returned(f)
    /\ sg_failed' = TRUE
    /\ sg_pc' = "done"
    /\ UNCHANGED <<sg_key, sg_type, sg_response, sg_story_data, sg_requests>>
    /\ UNCHANGED notStory

\* a validation that asks for an extension whatever the length
NeedsExtensionAlways(doc) == TRUE

\* if word_count < 400
NeedsExtension(doc) == WordCount(doc) < MIN_LONG_WORDS

\* word_count = len(story_data['story'].split())
\* if word_count < 400: return self._extend_story(story_data, category)
\* return story_data
ValidateLength ==
    /\ sg_pc = "validate"
    /\ IF ~HasStory(sg_story_data)
       THEN sg_pc' = "except" /\ UNCHANGED sg_result
       ELSE IF NeedsExtension(sg_story_data)
       THEN sg_pc' = "extend_client" /\ UNCHANGED sg_result
       ELSE /\ sg_pc' = "done"
            /\ sg_result' = Returned(<<"parsed", sg_story_data>>)
    /\ UNCHANGED <<sg_key, sg_type, sg_response, sg_story_data, sg_failed,
                   sg_requests>>
    /\ UNCHANGED notStory

\* _extend_story: client = genai.Client(...), inside the try block
ExtendConstructClient ==
    /\ sg_pc = "extend_client"
    /\ \E ok \in BOOLEAN :
           IF ok
           THEN sg_pc' = "extend_generate" /\ UNCHANGED sg_result
           ELSE /\ sg_pc' = "done"
                /\ sg_result' = Returned(<<"parsed", sg_story_data>>)
    /\ UNCHANGED <<sg_key, sg_type, sg_response, sg_story_data, sg_failed,
                   sg_requests>>
    /\ UNCHANGED notStory

\* _extend_story: response = client.models.generate_content(...)
ExtendGenerate ==
    /\ sg_pc = "extend_generate"
    /\ \E r \in GenerateOutcomes :
           /\ sg_response' = r
           /\ IF r.raised
              THEN /\ sg_pc' = "done"
                   /\ sg_result' = Returned(<<"parsed", sg_story_data>>)
              ELSE sg_pc' = "extend_parse" /\ UNCHANGED sg_result
    /\ sg_requests' = sg_requests + 1
    /\ UNCHANGED <<sg_key, sg_type, sg_story_data, sg_failed>>
    /\ UNCHANGED notStory

\* _extend_story: return json.loads(extended_json);
\* except Exception: return story_data
ExtendParse ==
    /\ sg_pc = "extend_parse"
    /\ LET parsed == IF sg_response.text = NoText
                     THEN [raised |-> TRUE, doc |-> "none"]
                     ELSE JsonLoads(StripFence(sg_response.text))
       IN  sg_result' = IF parsed.raised
                        THEN Returned(<<"parsed", sg_story_data>>)
                        ELSE Returned(<<"extended", parsed.doc>>)
    /\ sg_pc' = "done"
    /\ UNCHANGED <<sg_key, sg_type, sg_response, sg_story_data, sg_failed,
                   sg_requests>>
    /\ UNCHANGED notStory

NextStory ==
    \/ CheckApiKey
    \/ ConstructClient
    \/ GenerateContent
    \/ ParseResponse
    \/ ExceptFallback
    \/ ValidateLength
    \/ ExtendConstructClient
    \/ ExtendGenerate
    \/ ExtendParse

-----------------------------------------------------------------------------
(* FFMPEGVideoCreator (src/ffmpeg_video_creator.py)                        *)

FALLBACK_DURATION == 305
DURATION_BUFFER == 5
NoDuration == -1

\* the files dict of validate_files, in insertion order
InputFiles == <<"Background Video", "Voiceover", "Background Music">>

\* the first file of a list for which os.path.exists is false, or "none"
RECURSIVE FirstMissing(_, _)
FirstMissing(files, exists) ==
    IF files = <<>> THEN "none"
    ELSE IF ~exists[Head(files)] THEN Head(files)
    ELSE FirstMissing(Tail(files), exists)

\* a validation that takes the background music as optional
ValidateWithoutMusic(exists) == FirstMissing(SubSeq(InputFiles, 1, 2), exists)

\* validate_files: the file named by the FileNotFoundError, or "none"
ValidateFiles(exists) == FirstMissing(InputFiles, exists)

\* outcomes of get_media_info: subprocess.run raises; ffprobe exits non-zero;
\* its output is no JSON; the JSON is {}; the JSON has no format.duration;
\* the JSON gives the duration (in tenths of a second)
NoInfo == [kind |-> "None", tenths |-> 0]
ProbeOutcomes ==
    { [kind |-> k, tenths |-> 0] :
          k \in {"run_raised", "nonzero", "bad_json", "empty", "no_format"} }
    \cup { [kind |-> "info", tenths |-> t] : t \in {9, 627, 3000} }

\* get_media_info's return value: the parsed JSON or None
MediaInfo(outcome) ==
    IF outcome.kind \in {"info", "no_format", "empty"} THEN outcome ELSE NoInfo

\* if voice_info: (a dict is true unless empty)
Truthy(info) == info.kind \in {"info", "no_format"}

\* int(voice_duration) + 5
VoiceoverDuration(info) == (info.tenths \div 10) + DURATION_BUFFER

NoCmd == [hwaccel |-> FALSE, codec |-> "none", width |-> 0, height |-> 0,
          fps |-> 0, t |-> 0]

\* the command built for ENV = env and -t duration
BuildCmd(env, duration) ==
    [hwaccel |-> env = "prod",
     codec |-> IF env = "prod" THEN "h264_qsv" ELSE "libx264",
     width |-> 1920, height |-> 1080, fps |-> 30, t |-> duration]

NoFFResult == [kind |-> "none", value |-> "none", file |-> "none"]
FFRaised(e, f) == [kind |-> "raised", value |-> e, file |-> f]
FFReturned(v) == [kind |-> "returned", value |-> v, file |-> "none"]

\* a reader that does not look at the return code
ReturnIgnoringExit(exit) ==
    IF exit \in {"exit0", "nonzero"} THEN FFReturned("output_file")
    ELSE FFReturned("None")

\* what create_video returns once the process has been started: the
\* output's lines are read and the process waited for
ReturnAfterRender(exit) ==
    IF exit = "exit0" THEN FFReturned("output_file") ELSE FFReturned("None")

InitFFmpeg ==
    /\ ff_exists \in [{"Background Video", "Voiceover", "Background Music"}
                      -> BOOLEAN]
    /\ ff_env \in {"prod", "dev", "unset"}
    /\ ff_duration_arg \in {NoDuration, 30}
    /\ ff_pc = "validate"
    /\ ff_voice_info = NoInfo
    /\ ff_duration = ff_duration_arg
    /\ ff_cmd = NoCmd
    /\ ff_probe_calls = 0
    /\ ff_render_calls = 0
    /\ ff_render = "none"
    /\ ff_result = NoFFResult

IdleFFmpeg ==
    /\ ff_exists = [f \in {"Background Video", "Voiceover", "Background Music"}
                    |-> FALSE]
    /\ ff_env = "unset"
    /\ ff_duration_arg = NoDuration
    /\ ff_pc = "idle"
    /\ ff_voice_info = NoInfo
    /\ ff_duration = NoDuration
    /\ ff_cmd = NoCmd
    /\ ff_probe_calls = 0
    /\ ff_render_calls = 0
    /\ ff_render = "none"
    /\ ff_result = NoFFResult

\* self.validate_files(background_video, voiceover, background_music)
FFValidate ==
    /\ ff_pc = "validate"
    /\ LET missing == ValidateFiles(ff_exists)
       IN  IF missing = "none"
           THEN ff_pc' = "probe" /\ UNCHANGED ff_result
           ELSE /\ ff_pc' = "done"
                /\ ff_result' = FFRaised("FileNotFoundError", missing)
    /\ UNCHANGED <<ff_exists, ff_env, ff_duration_arg, ff_voice_info,
                   ff_duration, ff_cmd, ff_probe_calls, ff_render_calls,
                   ff_render>>
    /\ UNCHANGED notFF

\* voice_info = self.get_media_info(voiceover)
FFGetMediaInfo ==
    /\ ff_pc = "probe"
    /\ \E o \in ProbeOutcomes : ff_voice_info' = MediaInfo(o)
    /\ ff_probe_calls' = ff_probe_calls + 1
    /\ ff_pc' = "duration"
    /\ UNCHANGED <<ff_exists, ff_env, ff_duration_arg, ff_duration, ff_cmd,
                   ff_render_calls, ff_render, ff_result>>
    /\ UNCHANGED notFF

\* a create_video that keeps the duration its caller asked for
DurationHonouringCaller(duration, info) ==
    IF duration # NoDuration THEN duration
    ELSE IF Truthy(info) THEN VoiceoverDuration(info) ELSE FALLBACK_DURATION

\* the value assigned to duration, whatever it was on entry
DeterminedDuration(duration, info) ==
    IF Truthy(info) THEN VoiceoverDuration(info) ELSE FALLBACK_DURATION

\* if voice_info: duration = int(float(voice_info['format']['duration'])) + 5
\* else: duration = 305
FFDetermineDuration ==
    /\ ff_pc = "duration"
    /\ IF Truthy(ff_voice_info) /\ ff_voice_info.kind # "info"
       THEN /\ ff_result' = FFRaised("KeyError", "none")
            /\ ff_pc' = "done"
            /\ UNCHANGED ff_duration
       ELSE /\ ff_duration' = DeterminedDuration(ff_duration, ff_voice_info)
            /\ ff_pc' = "command"
            /\ UNCHANGED ff_result
    /\ UNCHANGED <<ff_exists, ff_env, ff_duration_arg, ff_voice_info, ff_cmd,
                   ff_probe_calls, ff_render_calls, ff_render>>
    /\ UNCHANGED notFF

\* cmd = [...]; os.environ['ENV'] raises KeyError when ENV is not set
FFBuildCommand ==
    /\ ff_pc = "command"
    /\ IF ff_env = "unset"
       THEN /\ ff_result' = FFRaised("KeyError", "none")
            /\ ff_pc' = "done"
            /\ UNCHANGED ff_cmd
       ELSE /\ ff_cmd' = BuildCmd(ff_env, ff_duration)
            /\ ff_pc' = "popen"
            /\ UNCHANGED ff_result
    /\ UNCHANGED <<ff_exists, ff_env, ff_duration_arg, ff_voice_info,
                   ff_duration, ff_probe_calls, ff_render_calls, ff_render>>
    /\ UNCHANGED notFF

\* process = subprocess.Popen(cmd, ...): the process starts, or Popen raises
\* an Exception (return None), or a KeyboardInterrupt arrives before process
\* is bound (the handler's process.terminate() raises UnboundLocalError)
FFStartRender ==
    /\ ff_pc = "popen"
    /\ ff_render_calls' = ff_render_calls + 1
    /\ \E o \in {"started", "popen_raised", "popen_interrupted"} :
           /\ ff_render' = o
           /\ IF o = "started"
              THEN ff_pc' = "read" /\ UNCHANGED ff_result
              ELSE /\ ff_pc' = "done"
                   /\ ff_result' = IF o = "popen_raised"
                                   THEN ReturnAfterRender(o)
                                   ELSE FFRaised("UnboundLocalError", "none")
    /\ UNCHANGED <<ff_exists, ff_env, ff_duration_arg, ff_voice_info,
                   ff_duration, ff_cmd, ff_probe_calls>>
    /\ UNCHANGED notFF

\* for line in process.stdout: ...; process.wait();
\* if process.returncode == 0: return output_file  else: return None
\* except KeyboardInterrupt / Exception: return None
FFReadOutput ==
    /\ ff_pc = "read"
    /\ \E o \in {"exit0", "nonzero", "read_raised", "read_interrupted"} :
           /\ ff_render' = o
           /\ ff_result' = ReturnAfterRender(o)
    /\ ff_pc' = "done"
    /\ UNCHANGED <<ff_exists, ff_env, ff_duration_arg, ff_voice_info,
                   ff_duration, ff_cmd, ff_probe_calls, ff_render_calls>>
    /\ UNCHANGED notFF

NextFFmpeg ==
    \/ FFValidate
    \/ FFGetMediaInfo
    \/ FFDetermineDuration
    \/ FFBuildCommand
    \/ FFStartRender
    \/ FFReadOutput

-----------------------------------------------------------------------------
(* Asset selection and the two VideoCreator entry points                   *)
(* (src/video_creator.py).  A file name is its stem and the text after its *)
(* last dot (ext; "" when the name has no dot).                            *)

File(stem, ext) == [stem |-> stem, ext |-> ext]
NoFile == File("none", "")

\* str.lower() on the extensions that occur
Lower(ext) ==
    CASE ext = "MP4" -> "mp4"
      [] ext = "Mov" -> "mov"
      [] ext = "WAV" -> "wav"
      [] OTHER -> ext

VIDEO_EXTENSIONS == {"mp4", "avi", "mov", "mkv"}
AUDIO_EXTENSIONS == {"mp3", "wav", "aac"}

\* f.lower().endswith(('.mp4', ...)): every suffix is a dot and an extension
EndsWithAny(f, extensions) == Lower(f.ext) \in extensions

\* a listing taken without the extension filter
UnfilteredListing(listing, extensions) == listing

\* [f for f in os.listdir(folder) if f.lower().endswith(extensions)]
FilterListing(listing, extensions) ==
    { f \in listing : EndsWithAny(f, extensions) }

\* the check that never finds the narration missing
AlwaysNarrated(audio_path) == FALSE

\* not audio_path
NotAudioPath(audio_path) == audio_path = "None"

\* the files that may lie in the two asset folders
VideoFolderFiles ==
    { File("clip", "mp4"), File("CLIP2", "MP4"), File("loop", "Mov"),
      File("notes", "txt"), File("mp4", "") }
AudioFolderFiles ==
    { File("song", "mp3"), File("RAIN", "WAV"), File("cover", "jpg"),
      File("clip", "mp4") }

\* outcomes of _generate_tts_audio
TTSOutcomes ==
    {"no_key", "config_raised", "speak_raised", "canceled", "completed"}
TTSFailures == TTSOutcomes \ {"completed"}

\* outcomes of _create_short_with_assets and _create_long_video_with_sync
CompositionOutcomes == {"ok", "load_raised", "render_raised"}

InitVideo ==
    /\ vc_method \in {"short", "long"}
    /\ vc_azure_key \in BOOLEAN
    /\ vc_videos \in SUBSET VideoFolderFiles
    /\ vc_audios \in SUBSET AudioFolderFiles
    /\ vc_pc = IF vc_method = "long" THEN "tts" ELSE "select_background"
    /\ vc_tts = "none"
    /\ vc_temp_audio = FALSE
    /\ vc_narration_path = "None"
    /\ vc_background_path = NoFile
    /\ vc_audio_path = NoFile
    /\ vc_error = "none"
    /\ vc_compositions = 0
    /\ vc_result = "none"

IdleVideo ==
    /\ vc_method = "short"
    /\ vc_azure_key = FALSE
    /\ vc_videos = {}
    /\ vc_audios = {}
    /\ vc_pc = "idle"
    /\ vc_tts = "none"
    /\ vc_temp_audio = FALSE
    /\ vc_narration_path = "None"
    /\ vc_background_path = NoFile
    /\ vc_audio_path = NoFile
    /\ vc_error = "none"
    /\ vc_compositions = 0
    /\ vc_result = "none"

\* audio_path = self._generate_tts_audio(story['story'])
VCGenerateTTS ==
    /\ vc_pc = "tts"
    /\ \E o \in TTSOutcomes :
           /\ o = "no_key" <=> ~vc_azure_key
           /\ vc_tts' = o
           /\ vc_narration_path' = IF o = "completed" THEN "temp_audio_path"
                                   ELSE "None"
           /\ IF o = "completed" THEN vc_temp_audio' = TRUE
              ELSE IF o \in {"canceled", "speak_raised"}
              THEN vc_temp_audio' \in BOOLEAN
              ELSE vc_temp_audio' = FALSE
    /\ vc_pc' = "check_audio"
    /\ UNCHANGED <<vc_method, vc_azure_key, vc_videos, vc_audios,
                   vc_background_path, vc_audio_path, vc_error,
                   vc_compositions, vc_result>>
    /\ UNCHANGED notVC

\* if not audio_path: return None
VCCheckAudio ==
    /\ vc_pc = "check_audio"
    /\ IF NotAudioPath(vc_narration_path)
       THEN vc_pc' = "done" /\ vc_result' = "None"
       ELSE vc_pc' = "select_background" /\ UNCHANGED vc_result
    /\ UNCHANGED <<vc_method, vc_azure_key, vc_videos, vc_audios, vc_tts,
                   vc_temp_audio, vc_narration_path, vc_background_path,
                   vc_audio_path, vc_error, vc_compositions>>
    /\ UNCHANGED notVC

\* background_path = self.get_random_background_video(); its exception is
\* caught by the caller's except Exception: return None
VCSelectBackground ==
    /\ vc_pc = "select_background"
    /\ LET background_videos == FilterListing(vc_videos, VIDEO_EXTENSIONS)
       IN  IF background_videos = {}
           THEN /\ vc_error' = "No background videos found!"
                /\ vc_result' = "None"
                /\ vc_pc' = "done"
                /\ UNCHANGED vc_background_path
           ELSE /\ \E f \in background_videos : vc_background_path' = f
                /\ vc_pc' = IF vc_method = "long" THEN "compose"
                            ELSE "select_audio"
                /\ UNCHANGED <<vc_error, vc_result>>
    /\ UNCHANGED <<vc_method, vc_azure_key, vc_videos, vc_audios, vc_tts,
                   vc_temp_audio, vc_narration_path, vc_audio_path,
                   vc_compositions>>
    /\ UNCHANGED notVC

\* audio_path = self.get_random_audio_track()
VCSelectAudio ==
    /\ vc_pc = "select_audio"
    /\ LET audio_tracks == FilterListing(vc_audios, AUDIO_EXTENSIONS)
       IN  IF audio_tracks = {}
           THEN /\ vc_error' = "No audio tracks found!"
                /\ vc_result' = "None"
                /\ vc_pc' = "done"
                /\ UNCHANGED vc_audio_path
           ELSE /\ \E f \in audio_tracks : vc_audio_path' = f
                /\ vc_pc' = "compose"
                /\ UNCHANGED <<vc_error, vc_result>>
    /\ UNCHANGED <<vc_method, vc_azure_key, vc_videos, vc_audios, vc_tts,
                   vc_temp_audio, vc_narration_path, vc_background_path,
                   vc_compositions>>
    /\ UNCHANGED notVC

\* return self._create_short_with_assets(...) /
\*        self._create_long_video_with_sync(...): the output path, or None
\* from its except block; the long form removes the narration file after a
\* successful export
VCCompose ==
    /\ vc_pc = "compose"
    /\ vc_compositions' = vc_compositions + 1
    /\ \E o \in CompositionOutcomes :
           IF o = "ok"
           THEN /\ vc_result' = "output_path"
                /\ vc_temp_audio' = IF vc_method = "long" THEN FALSE
                                    ELSE vc_temp_audio
                /\ UNCHANGED vc_error
           ELSE /\ vc_result' = "None"
                /\ vc_error' = o
                /\ UNCHANGED vc_temp_audio
    /\ vc_pc' = "done"
    /\ UNCHANGED <<vc_method, vc_azure_key, vc_videos, vc_audios, vc_tts,
                   vc_narration_path, vc_background_path, vc_audio_path>>
    /\ UNCHANGED notVC

NextVideo ==
    \/ VCGenerateTTS
    \/ VCCheckAudio
    \/ VCSelectBackground
    \/ VCSelectAudio
    \/ VCCompose

-----------------------------------------------------------------------------
(* YouTubeShortsBot (src/main.py): the main program, the scheduler loop    *)
(* and the job generate_and_upload_short                                   *)

BotVideoFiles == { File("clip", "MP4"), File("notes", "txt") }
BotAudioFiles == { File("song", "mp3") }

\* credentials: "valid"; "expired" with a refresh token; "invalid": neither
\* valid nor refreshable (not expired, or no refresh token)
CredStates == {"valid", "expired", "invalid"}

InitBot ==
    /\ font_path_set \in BOOLEAN
    /\ secrets_exists \in BOOLEAN
    /\ bot_videos \in SUBSET BotVideoFiles
    /\ bot_audios \in SUBSET BotAudioFiles
    /\ token_file \in {"absent", "corrupt"} \cup CredStates
    /\ disk_videos = 0
    /\ bot_pc = "main"
    /\ ticks = 0
    /\ pending = 0
    /\ in_progress = 0
    /\ job_pc = "idle"
    /\ story = "none"
    /\ video_path = "none"
    /\ creds = "None"
    /\ yt_svc = "none"
    /\ upload_chunks = 0
    /\ success = "none"
    /\ job_result = "none"
    /\ job_log = {}

IdleBot ==
    /\ font_path_set = FALSE
    /\ secrets_exists = FALSE
    /\ bot_videos = {}
    /\ bot_audios = {}
    /\ token_file = "absent"
    /\ disk_videos = 0
    /\ bot_pc = "idle"
    /\ ticks = 0
    /\ pending = 0
    /\ in_progress = 0
    /\ job_pc = "idle"
    /\ story = "none"
    /\ video_path = "none"
    /\ creds = "None"
    /\ yt_svc = "none"
    /\ upload_chunks = 0
    /\ success = "none"
    /\ job_result = "none"
    /\ job_log = {}

\* a call of generate_and_upload_short
EnterJob ==
    /\ in_progress' = in_progress + 1
    /\ job_pc' = "get_story"
    /\ story' = "none"
    /\ video_path' = "none"
    /\ creds' = "None"
    /\ yt_svc' = "none"
    /\ upload_chunks' = 0
    /\ success' = "none"
    /\ job_result' = "none"
    /\ job_log' = {}

\* __main__: bot.generate_and_upload_short()
MainCallsJob ==
    /\ bot_pc = "main"
    /\ bot_pc' = "main_job"
    /\ EnterJob
    /\ UNCHANGED <<botEnv, token_file, disk_videos, ticks, pending>>
    /\ UNCHANGED notBot

\* story = self.get_story(): the client is constructed outside the try
\* block of get_story_from_gemini; inside it any error gives a fallback
\* story; a response that parses need not be a story
GetStory ==
    /\ job_pc = "get_story"
    /\ \E o \in {"client_raised", "parsed", "parsed_no_story", "fallback"} :
           IF o = "client_raised"
           THEN /\ job_pc' = "except"
                /\ job_log' = job_log \cup {"get_story raised"}
                /\ UNCHANGED story
           ELSE /\ job_pc' = "select_assets"
                /\ story' = o
                /\ UNCHANGED job_log
    /\ UNCHANGED <<video_path, creds, yt_svc, upload_chunks, success, job_result>>
    /\ UNCHANGED <<botEnv, token_file, disk_videos, bot_pc, ticks, pending,
                   in_progress>>
    /\ UNCHANGED notBot

\* generate_short: the two listings; an error in them returns None, a
\* folder without a matching file returns False
SelectAssets ==
    /\ job_pc = "select_assets"
    /\ \E listed \in BOOLEAN :
           IF ~listed
           THEN /\ video_path' = "None"
                /\ job_pc' = "auth_load"
                /\ job_log' = job_log \cup {"generation failed"}
           ELSE IF FilterListing(bot_videos, VIDEO_EXTENSIONS) = {}
                   \/ FilterListing(bot_audios, AUDIO_EXTENSIONS) = {}
           THEN /\ video_path' = "False"
                /\ job_pc' = "auth_load"
                /\ job_log' = job_log \cup {"generation failed"}
           ELSE /\ job_pc' = "create_video"
                /\ UNCHANGED <<video_path, job_log>>
    /\ UNCHANGED <<story, creds, yt_svc, upload_chunks, success, job_result>>
    /\ UNCHANGED <<botEnv, token_file, disk_videos, bot_pc, ticks, pending,
                   in_progress>>
    /\ UNCHANGED notBot

\* video_path = self.create_video_short(...); if not video_path: return
\* False.  create_video_short returns None when anything in it raises:
\* os.path.join(fonts_folder, None) without FONT_PATH, story['story'] of a
\* response that is no story, a failing render
CreateVideoShort ==
    /\ job_pc = "create_video"
    /\ \E rendered \in BOOLEAN :
           IF rendered /\ font_path_set /\ story # "parsed_no_story"
           THEN /\ video_path' = "output_path"
                /\ disk_videos' = disk_videos + 1
                /\ job_log' = job_log \cup {"rendered"}
           ELSE /\ video_path' = "False"
                /\ job_log' = job_log \cup {"composition started",
                                            "generation failed"}
                /\ UNCHANGED disk_videos
    /\ job_pc' = "auth_load"
    /\ UNCHANGED <<story, creds, yt_svc, upload_chunks, success, job_result>>
    /\ UNCHANGED <<botEnv, token_file, bot_pc, ticks, pending,
                   in_progress>>
    /\ UNCHANGED notBot

\* get_authenticated_service: load the token file; a file that cannot be
\* unpickled is removed
AuthLoad ==
    /\ job_pc = "auth_load"
    /\ IF token_file = "absent"
       THEN UNCHANGED <<creds, token_file>>
       ELSE IF token_file = "corrupt"
       THEN creds' = "None" /\ token_file' \in {"absent", "corrupt"}
       ELSE creds' = token_file /\ UNCHANGED token_file
    /\ job_log' = job_log \cup {"upload stage entered"}
    /\ job_pc' = IF token_file = "valid" THEN "build" ELSE "auth_refresh"
    /\ UNCHANGED <<story, video_path, yt_svc, upload_chunks, success, job_result>>
    /\ UNCHANGED <<botEnv, disk_videos, bot_pc, ticks, pending,
                   in_progress>>
    /\ UNCHANGED notBot

\* if creds and creds.expired and creds.refresh_token: creds.refresh(...)
AuthRefresh ==
    /\ job_pc = "auth_refresh"
    /\ IF creds = "expired"
       THEN \E ok \in BOOLEAN :
                /\ creds' = IF ok THEN "valid" ELSE "None"
                /\ job_log' = job_log \cup
                       {IF ok THEN "refreshed" ELSE "refresh failed"}
       ELSE UNCHANGED <<creds, job_log>>
    /\ job_pc' = "auth_flow"
    /\ UNCHANGED <<story, video_path, yt_svc, upload_chunks, success, job_result>>
    /\ UNCHANGED <<botEnv, token_file, disk_videos, bot_pc, ticks, pending,
                   in_progress>>
    /\ UNCHANGED notBot

\* if not creds: without the secrets file return False; run the OAuth flow,
\* return False when it fails
AuthFlow ==
    /\ job_pc = "auth_flow"
    /\ IF creds # "None"
       THEN job_pc' = "auth_save" /\ UNCHANGED <<creds, yt_svc, job_log>>
       ELSE IF ~secrets_exists
       THEN /\ yt_svc' = "False"
            /\ job_pc' = "start_upload"
            /\ UNCHANGED <<creds, job_log>>
       ELSE \E ok \in BOOLEAN :
                IF ok
                THEN /\ creds' = "valid"
                     /\ job_pc' = "auth_save"
                     /\ job_log' = job_log \cup {"oauth flow completed"}
                     /\ UNCHANGED yt_svc
                ELSE /\ yt_svc' = "False"
                     /\ job_pc' = "start_upload"
                     /\ job_log' = job_log \cup {"oauth flow failed"}
                     /\ UNCHANGED creds
    /\ UNCHANGED <<story, video_path, upload_chunks, success, job_result>>
    /\ UNCHANGED <<botEnv, token_file, disk_videos, bot_pc, ticks, pending,
                   in_progress>>
    /\ UNCHANGED notBot

\* pickle.dump(creds, token_file); a failure is logged as a warning
AuthSave ==
    /\ job_pc = "auth_save"
    /\ \E written \in BOOLEAN :
           IF written
           THEN /\ token_file' = creds
                /\ job_log' = job_log \cup {"token written"}
           ELSE UNCHANGED <<token_file, job_log>>
    /\ job_pc' = "build"
    /\ UNCHANGED <<story, video_path, creds, yt_svc, upload_chunks, success,
                   job_result>>
    /\ UNCHANGED <<botEnv, disk_videos, bot_pc, ticks, pending,
                   in_progress>>
    /\ UNCHANGED notBot

\* return build("youtube", "v3", credentials=creds); an exception of build
\* is caught by upload_to_youtube, which returns False
BuildService ==
    /\ job_pc = "build"
    /\ \E built \in BOOLEAN :
           IF built
           THEN /\ yt_svc' = creds
                /\ job_pc' = "start_upload"
                /\ UNCHANGED success
           ELSE /\ success' = "False"
                /\ job_pc' = "uploaded"
                /\ UNCHANGED yt_svc
    /\ UNCHANGED <<story, video_path, creds, upload_chunks, job_result, job_log>>
    /\ UNCHANGED <<botEnv, token_file, disk_videos, bot_pc, ticks, pending,
                   in_progress>>
    /\ UNCHANGED notBot

\* media = MediaFileUpload(video_path, ...) raises when video_path is no
\* file; request = yt_svc.videos().insert(...) raises when yt_svc is False;
\* both are caught: return False
StartUpload ==
    /\ job_pc = "start_upload"
    /\ IF video_path # "output_path" \/ yt_svc = "False"
       THEN success' = "False" /\ job_pc' = "uploaded"
       ELSE job_pc' = "next_chunk" /\ UNCHANGED success
    /\ UNCHANGED <<story, video_path, creds, yt_svc, upload_chunks, job_result,
                   job_log>>
    /\ UNCHANGED <<botEnv, token_file, disk_videos, bot_pc, ticks, pending,
                   in_progress>>
    /\ UNCHANGED notBot

\* while response is None: status, response = request.next_chunk()
\* an HttpError or any other exception returns False
NextChunk ==
    /\ job_pc = "next_chunk"
    /\ upload_chunks' = upload_chunks + 1
    /\ \E o \in {"more", "response", "raised"} :
           /\ o = "more" => upload_chunks + 1 < MaxChunks
           /\ o = "response" => yt_svc = "valid"
           /\ IF o = "more"
              THEN UNCHANGED <<job_pc, success, job_log>>
              ELSE IF o = "response"
              THEN /\ success' = "True"
                   /\ job_pc' = "uploaded"
                   /\ job_log' = job_log \cup {"upload succeeded"}
              ELSE /\ success' = "False"
                   /\ job_pc' = "uploaded"
                   /\ UNCHANGED job_log
    /\ UNCHANGED <<story, video_path, creds, yt_svc, job_result>>
    /\ UNCHANGED <<botEnv, token_file, disk_videos, bot_pc, ticks, pending,
                   in_progress>>
    /\ UNCHANGED notBot

\* a job that removes the video whatever the upload returned
RemoveAlways(uploaded) == TRUE

\* if success:
ShouldRemove(uploaded) == uploaded = "True"

\* if success: os.remove(video_path);  return success
RemoveAndReturn ==
    /\ job_pc = "uploaded"
    /\ IF ShouldRemove(success)
       THEN \E removed \in BOOLEAN :
                IF removed
                THEN /\ disk_videos' = disk_videos - 1
                     /\ job_result' = success
                     /\ job_pc' = "returned"
                     /\ job_log' = job_log \cup {"video removed"}
                ELSE /\ job_pc' = "except"
                     /\ job_log' = job_log \cup {"os.remove raised"}
                     /\ UNCHANGED <<disk_videos, job_result>>
       ELSE /\ job_result' = success
            /\ job_pc' = "returned"
            /\ UNCHANGED <<disk_videos, job_log>>
    /\ UNCHANGED <<story, video_path, creds, yt_svc, upload_chunks, success>>
    /\ UNCHANGED <<botEnv, token_file, bot_pc, ticks, pending,
                   in_progress>>
    /\ UNCHANGED notBot

\* a job without its try block: the exception leaves the job
JobExceptEscapes ==
    /\ job_pc = "except"
    /\ job_result' = "raised"
    /\ job_pc' = "returned"
    /\ UNCHANGED <<story, video_path, creds, yt_svc, upload_chunks, success, job_log>>
    /\ UNCHANGED <<botEnv, token_file, disk_videos, bot_pc, ticks, pending,
                   in_progress>>
    /\ UNCHANGED notBot

\* except Exception as e: logging.error(...); return False
JobExcept ==
    /\ job_pc = "except"
    /\ job_result' = "False"
    /\ job_pc' = "returned"
    /\ UNCHANGED <<story, video_path, creds, yt_svc, upload_chunks, success, job_log>>
    /\ UNCHANGED <<botEnv, token_file, disk_videos, bot_pc, ticks, pending,
                   in_progress>>
    /\ UNCHANGED notBot

\* the job called from __main__ is over; an exception ends the program
MainJobReturns ==
    /\ bot_pc = "main_job"
    /\ job_pc = "returned"
    /\ bot_pc' = IF job_result = "raised" THEN "crashed" ELSE "font_check"
    /\ job_pc' = "idle"
    /\ in_progress' = in_progress - 1
    /\ UNCHANGED <<story, video_path, creds, yt_svc, upload_chunks, success,
                   job_result, job_log>>
    /\ UNCHANGED <<botEnv, token_file, disk_videos, ticks, pending>>
    /\ UNCHANGED notBot

\* if os.getenv('FONT_PATH') is None: sys.exit(1)
\* bot.run_daily_uploads()
FontCheck ==
    /\ bot_pc = "font_check"
    /\ bot_pc' = IF font_path_set THEN "run_pending" ELSE "exited"
    /\ UNCHANGED <<botEnv, token_file, disk_videos, ticks, pending,
                   in_progress, jobVars>>
    /\ UNCHANGED notBot

\* schedule.run_pending(): the jobs that are due now are collected
RunPending ==
    /\ bot_pc = "run_pending"
    /\ \E due \in 0..MaxDue : pending' = due
    /\ bot_pc' = "run_jobs"
    /\ UNCHANGED <<botEnv, token_file, disk_videos, ticks, in_progress,
                   jobVars>>
    /\ UNCHANGED notBot

\* a scheduler that starts a due job without waiting for the one that
\* runs
SchedulerSpawnsJob ==
    /\ bot_pc \in {"run_jobs", "scheduled_job"}
    /\ pending > 0
    /\ pending' = pending - 1
    /\ bot_pc' = "scheduled_job"
    /\ EnterJob
    /\ UNCHANGED <<botEnv, token_file, disk_videos, ticks>>
    /\ UNCHANGED notBot

\* run_pending runs the next due job, or returns when none is left
SchedulerCallsJob ==
    /\ bot_pc = "run_jobs"
    /\ job_pc = "idle"
    /\ IF pending > 0
       THEN /\ pending' = pending - 1
            /\ bot_pc' = "scheduled_job"
            /\ EnterJob
       ELSE /\ bot_pc' = "sleep"
            /\ UNCHANGED <<pending, in_progress, jobVars>>
    /\ UNCHANGED <<botEnv, token_file, disk_videos, ticks>>
    /\ UNCHANGED notBot

\* the job run by run_pending is over; its exception would leave
\* run_pending and the while loop
ScheduledJobReturns ==
    /\ bot_pc = "scheduled_job"
    /\ job_pc = "returned"
    /\ bot_pc' = IF job_result = "raised" THEN "crashed" ELSE "run_jobs"
    /\ job_pc' = "idle"
    /\ in_progress' = in_progress - 1
    /\ UNCHANGED <<story, video_path, creds, yt_svc, upload_chunks, success,
                   job_result, job_log>>
    /\ UNCHANGED <<botEnv, token_file, disk_videos, ticks, pending>>
    /\ UNCHANGED notBot

\* time.sleep(60), then the next pass of while True
Sleep ==
    /\ bot_pc = "sleep"
    /\ ticks < MaxTicks
    /\ ticks' = ticks + 1
    /\ bot_pc' = "run_pending"
    /\ UNCHANGED <<botEnv, token_file, disk_videos, pending, in_progress,
                   jobVars>>
    /\ UNCHANGED notBot

Next ==
    \/ MainCallsJob
    \/ GetStory
    \/ SelectAssets
    \/ CreateVideoShort
    \/ AuthLoad
    \/ AuthRefresh
    \/ AuthFlow
    \/ AuthSave
    \/ BuildService
    \/ StartUpload
    \/ NextChunk
    \/ RemoveAndReturn
    \/ JobExcept
    \/ MainJobReturns
    \/ FontCheck
    \/ RunPending
    \/ SchedulerCallsJob
    \/ ScheduledJobReturns
    \/ Sleep

-----------------------------------------------------------------------------
(* The compositors of VideoCreator: _create_short_with_assets and          *)
(* _create_long_video_with_sync prepare the background and the audio       *)

FRAME_HEIGHT == 1920
FRAME_WIDTH == 1080
EXPORT_FPS == 30
DEFAULT_CLIP_DURATION == 20

NoClip == [w |-> 0, h |-> 0, duration |-> 0, fit |-> "none"]
NoAudio == [duration |-> 0, fit |-> "none"]
NoVideo == [kind |-> "none", w |-> 0, h |-> 0, fps |-> 0]

\* VideoFileClip(path), AudioFileClip(path)
VideoFileClip(src) ==
    [w |-> src.w, h |-> src.h, duration |-> src.duration, fit |-> "unchanged"]
AudioFileClip(duration) == [duration |-> duration, fit |-> "unchanged"]

\* clip.resized(height=...): the width follows the aspect ratio, truncated
\* to an integer
Resized(clip, height) ==
    [clip EXCEPT !.w = (clip.w * height) \div clip.h, !.h = height]

\* clip.cropped(x_center=clip.w / 2, width=...)
Cropped(clip, width) == [clip EXCEPT !.w = width]

\* background.resized(height=1920); if background.w > 1080: cropped
ResizeToFrame(clip) ==
    LET r == Resized(clip, FRAME_HEIGHT)
    IN  IF r.w > FRAME_WIDTH THEN Cropped(r, FRAME_WIDTH) ELSE r

\* clip.with_duration(d) and clip.with_effects([Loop()]).with_duration(d)
WithDuration(clip, d) == [clip EXCEPT !.duration = d, !.fit = "trimmed"]
Looped(clip, d) == [clip EXCEPT !.duration = d, !.fit = "looped"]

\* a short form that only trims
FitBackgroundShortNeverLoops(background, clip_duration) ==
    IF background.duration > clip_duration
    THEN WithDuration(background, clip_duration)
    ELSE background

\* if background.duration > clip_duration: with_duration
\* elif background.duration < clip_duration: Loop, with_duration
FitBackgroundShort(background, clip_duration) ==
    IF background.duration > clip_duration
    THEN WithDuration(background, clip_duration)
    ELSE IF background.duration < clip_duration
    THEN Looped(background, clip_duration)
    ELSE background

\* if audio_clip.duration < background.duration: AudioLoop(duration=...)
\* elif audio_clip.duration > background.duration: with_duration
FitAudioShort(audio_clip, background) ==
    IF audio_clip.duration < background.duration
    THEN Looped(audio_clip, background.duration)
    ELSE IF audio_clip.duration > background.duration
    THEN WithDuration(audio_clip, background.duration)
    ELSE audio_clip

\* if background.duration < target_duration: Loop, with_duration
\* else: with_duration
FitBackgroundLong(background, target) ==
    IF background.duration < target
    THEN Looped(background, target)
    ELSE IF background.duration > target
    THEN WithDuration(background, target)
    ELSE [background EXCEPT !.duration = target]

\* CompositeVideoClip(clips) has the size of its first clip, the
\* background; write_videofile(..., fps=30)
ExportedVideo(background) ==
    [kind |-> "video", w |-> background.w, h |-> background.h,
     fps |-> EXPORT_FPS]

SourceSizes ==
    { <<1920, 1080>>, <<1080, 1920>>, <<720, 1280>>, <<608, 1080>>,
      <<960, 1920>>, <<1080, 2400>> }
ClipSeconds == {5, 20, 45}

InitCompose ==
    /\ cmp_form \in {"short", "long"}
    /\ \E size \in SourceSizes, d \in ClipSeconds :
           cmp_source = [w |-> size[1], h |-> size[2], duration |-> d]
    /\ cmp_audio_src \in ClipSeconds
    /\ cmp_requested \in {DEFAULT_CLIP_DURATION, 10}
    /\ cmp_pc = "load"
    /\ cmp_background = NoClip
    /\ cmp_audio = NoAudio
    /\ cmp_final = NoVideo

IdleCompose ==
    /\ cmp_form = "short"
    /\ cmp_source = [w |-> 0, h |-> 0, duration |-> 0]
    /\ cmp_audio_src = 0
    /\ cmp_requested = 0
    /\ cmp_pc = "idle"
    /\ cmp_background = NoClip
    /\ cmp_audio = NoAudio
    /\ cmp_final = NoVideo

\* the duration the background has to get: clip_duration in the short
\* form, target_duration = audio_clip.duration in the long form
TargetDuration ==
    IF cmp_form = "short" THEN cmp_requested ELSE cmp_audio_src

\* background = VideoFileClip(...); the long form loads the narration here
CmpLoad ==
    /\ cmp_pc = "load"
    /\ \E opened \in BOOLEAN :
           IF opened
           THEN /\ cmp_background' = VideoFileClip(cmp_source)
                /\ cmp_audio' = IF cmp_form = "long"
                                THEN AudioFileClip(cmp_audio_src)
                                ELSE cmp_audio
                /\ cmp_pc' = "resize"
                /\ UNCHANGED cmp_final
           ELSE /\ cmp_final' = [NoVideo EXCEPT !.kind = "None"]
                /\ cmp_pc' = "done"
                /\ UNCHANGED <<cmp_background, cmp_audio>>
    /\ UNCHANGED <<cmp_form, cmp_source, cmp_audio_src, cmp_requested>>
    /\ UNCHANGED notCmp

\* resized(height=1920) and the crop to width 1080
CmpResize ==
    /\ cmp_pc = "resize"
    /\ cmp_background' = ResizeToFrame(cmp_background)
    /\ cmp_pc' = "fit_background"
    /\ UNCHANGED <<cmp_form, cmp_source, cmp_audio_src, cmp_requested,
                   cmp_audio, cmp_final>>
    /\ UNCHANGED notCmp

\* loop or trim the background
CmpFitBackground ==
    /\ cmp_pc = "fit_background"
    /\ cmp_background' =
           IF cmp_form = "short"
           THEN FitBackgroundShort(cmp_background, cmp_requested)
           ELSE FitBackgroundLong(cmp_background, cmp_audio.duration)
    /\ cmp_pc' = IF cmp_form = "short" THEN "fit_audio" ELSE "export"
    /\ UNCHANGED <<cmp_form, cmp_source, cmp_audio_src, cmp_requested,
                   cmp_audio, cmp_final>>
    /\ UNCHANGED notCmp

\* the short form loads the audio track and loops or trims it
CmpFitAudio ==
    /\ cmp_pc = "fit_audio"
    /\ cmp_audio' = FitAudioShort(AudioFileClip(cmp_audio_src), cmp_background)
    /\ cmp_pc' = "export"
    /\ UNCHANGED <<cmp_form, cmp_source, cmp_audio_src, cmp_requested,
                   cmp_background, cmp_final>>
    /\ UNCHANGED notCmp

\* CompositeVideoClip(...).with_audio(audio_clip).write_videofile(...);
\* any exception returns None
CmpExport ==
    /\ cmp_pc = "export"
    /\ \E written \in BOOLEAN :
           cmp_final' = IF written THEN ExportedVideo(cmp_background)
                        ELSE [NoVideo EXCEPT !.kind = "None"]
    /\ cmp_pc' = "done"
    /\ UNCHANGED <<cmp_form, cmp_source, cmp_audio_src, cmp_requested,
                   cmp_background, cmp_audio>>
    /\ UNCHANGED notCmp

NextCompose ==
    \/ CmpLoad
    \/ CmpResize
    \/ CmpFitBackground
    \/ CmpFitAudio
    \/ CmpExport

-----------------------------------------------------------------------------
(* The platform uploaders (src/platform_uploaders.py): FacebookUploader    *)
(* and InstagramUploader                                                   *)

NoOffset == -1

\* an HTTP request, and the answer to it.  A response is "ok", an "error"
\* (raise_for_status or the connection raises a RequestException) or
\* "malformed" (the JSON lacks a key the code reads)
Request(phase, offset) == [phase |-> phase, offset |-> offset]
Response(kind, start, end, ok) ==
    [kind |-> kind, start |-> start, end |-> end, success |-> ok]
Failure(kind) == Response(kind, NoOffset, NoOffset, FALSE)

\* what the server may answer to a start or a transfer request
OffsetResponses ==
    { Response("ok", so, eo, FALSE) :
          so \in 0..MaxOffset, eo \in 0..MaxOffset }
    \cup {Failure("error"), Failure("malformed")}

\* what the server may answer to GET /me/accounts
AccountsResponses ==
    {Failure("error"), Failure("malformed"), Failure("page not listed"),
     Response("ok", NoOffset, NoOffset, TRUE)}

\* what the server may answer to a finish request; data.get("success",
\* False)
FinishResponses ==
    {Failure("error"), Response("ok", NoOffset, NoOffset, TRUE),
     Response("ok", NoOffset, NoOffset, FALSE)}

\* a transfer loop that stops after its first response
TransferDoneAtOnce(data) == TRUE

\* a loop that never finds the transfer finished
TransferNeverDone(data) == FALSE

\* if data['start_offset'] == data['end_offset']: break
TransferDone(data) == data.start = data.end

\* an Instagram placeholder that reports success
PlaceholderReportsSuccess == "True"

\* # Placeholder return
PlaceholderReturn == "False"

InitUpload ==
    /\ up_platform \in {"Facebook", "Instagram"}
    /\ up_access_token \in BOOLEAN
    /\ up_account \in BOOLEAN
    /\ up_file_exists \in BOOLEAN
    /\ up_page_token \in
           IF up_platform = "Facebook" THEN {"None", "token"} ELSE {"None"}
    /\ up_pc = "check"
    /\ up_start_offset = NoOffset
    /\ up_end_offset = NoOffset
    /\ up_requests = <<>>
    /\ up_responses = <<>>
    /\ up_result = "none"

IdleUpload ==
    /\ up_platform = "none"
    /\ up_access_token = FALSE
    /\ up_account = FALSE
    /\ up_file_exists = FALSE
    /\ up_page_token = "None"
    /\ up_pc = "idle"
    /\ up_start_offset = NoOffset
    /\ up_end_offset = NoOffset
    /\ up_requests = <<>>
    /\ up_responses = <<>>
    /\ up_result = "none"

upInputs == <<up_platform, up_access_token, up_account, up_file_exists>>

\* the request is sent and answered
Exchange(request, response) ==
    /\ up_requests' = Append(up_requests, request)
    /\ up_responses' = Append(up_responses, response)

\* upload returns
UploadReturns(value) ==
    /\ up_result' = value
    /\ up_pc' = "done"

\* FacebookUploader.upload: the credentials and the file
FbCheck ==
    /\ up_platform = "Facebook"
    /\ up_pc = "check"
    /\ IF ~up_access_token \/ ~up_account \/ ~up_file_exists
       THEN UploadReturns("False")
       ELSE up_pc' = "page_token" /\ UNCHANGED up_result
    /\ UNCHANGED <<upInputs, up_page_token, up_start_offset, up_end_offset,
                   up_requests, up_responses>>
    /\ UNCHANGED notUp

\* if not self._get_page_access_token(): return False
\* the cached token is returned without a request
FbGetPageAccessToken ==
    /\ up_pc = "page_token"
    /\ IF up_page_token # "None"
       THEN /\ up_pc' = "start"
            /\ UNCHANGED <<up_page_token, up_requests, up_responses,
                           up_result>>
       ELSE \E r \in AccountsResponses :
                /\ Exchange(Request("accounts", NoOffset), r)
                /\ IF r.kind = "ok"
                   THEN /\ up_page_token' = "token"
                        /\ up_pc' = "start"
                        /\ UNCHANGED up_result
                   ELSE /\ UploadReturns("False")
                        /\ UNCHANGED up_page_token
    /\ UNCHANGED <<upInputs, up_start_offset, up_end_offset>>
    /\ UNCHANGED notUp

\* upload_session_id, video_id, start_offset, end_offset =
\*     self._initiate_resumable_upload()
FbInitiate ==
    /\ up_pc = "start"
    /\ \E r \in OffsetResponses :
           /\ Exchange(Request("start", NoOffset), r)
           /\ IF r.kind = "ok"
              THEN /\ up_start_offset' = r.start
                   /\ up_end_offset' = r.end
                   /\ up_pc' = "transfer"
                   /\ UNCHANGED up_result
              ELSE /\ UploadReturns("False")
                   /\ UNCHANGED <<up_start_offset, up_end_offset>>
    /\ UNCHANGED <<upInputs, up_page_token>>
    /\ UNCHANGED notUp

TransfersSent ==
    Cardinality({i \in DOMAIN up_requests : up_requests[i].phase = "transfer"})

\* one pass of the while loop of _upload_chunks.  The model follows
\* MaxTransfers passes; a loop that is still not done then is left at
\* "transfer_more", where it goes on for ever
FbUploadChunk ==
    /\ up_pc = "transfer"
    /\ \E r \in OffsetResponses :
           /\ Exchange(Request("transfer", up_start_offset), r)
           /\ IF r.kind # "ok"
              THEN /\ UploadReturns("False")
                   /\ UNCHANGED <<up_start_offset, up_end_offset>>
              ELSE IF TransferDone(r)
              THEN /\ up_pc' = "finish"
                   /\ UNCHANGED <<up_start_offset, up_end_offset, up_result>>
              ELSE /\ up_start_offset' = r.start
                   /\ up_end_offset' = r.end
                   /\ up_pc' = IF TransfersSent + 1 < MaxTransfers
                               THEN "transfer" ELSE "transfer_more"
                   /\ UNCHANGED up_result
    /\ UNCHANGED <<upInputs, up_page_token>>
    /\ UNCHANGED notUp

\* success = self._finish_upload(...); return True if success else False
FbFinish ==
    /\ up_pc = "finish"
    /\ \E r \in FinishResponses :
           /\ Exchange(Request("finish", NoOffset), r)
           /\ UploadReturns(IF r.kind = "ok" /\ r.success
                            THEN "True" ELSE "False")
    /\ UNCHANGED <<upInputs, up_page_token, up_start_offset, up_end_offset>>
    /\ UNCHANGED notUp

\* InstagramUploader.upload: if not self.access_token or not
\* self.account_id: return False
IgCheckCredentials ==
    /\ up_platform = "Instagram"
    /\ up_pc = "check"
    /\ IF ~up_access_token \/ ~up_account
       THEN UploadReturns("False")
       ELSE up_pc' = "placeholder" /\ UNCHANGED up_result
    /\ UNCHANGED <<upInputs, up_page_token, up_start_offset, up_end_offset,
                   up_requests, up_responses>>
    /\ UNCHANGED notUp

\* the two logging calls and the placeholder return
IgPlaceholder ==
    /\ up_pc = "placeholder"
    /\ UploadReturns(PlaceholderReturn)
    /\ UNCHANGED <<upInputs, up_page_token, up_start_offset, up_end_offset,
                   up_requests, up_responses>>
    /\ UNCHANGED notUp

NextUpload ==
    \/ FbCheck
    \/ FbGetPageAccessToken
    \/ FbInitiate
    \/ FbUploadChunk
    \/ FbFinish
    \/ IgCheckCredentials
    \/ IgPlaceholder

-----------------------------------------------------------------------------
(* YouTubeUploader (src/platform_uploaders.py) *)

\* a loader that leaves the unreadable file where it is
UnreadableTokenKept(removable) == "corrupt"

\* what is left of a token file that could not be unpickled: os.remove
\* takes it away, and a failure of os.remove is swallowed
UnreadableToken(removable) == IF removable THEN "absent" ELSE "corrupt"

\* if not creds or not creds.valid
NeedsNewCreds(c) == c = "None" \/ c # "valid"

\* if creds and creds.expired and creds.refresh_token
Refreshable(c) == c = "expired"

InitYouTube ==
    /\ ytu_token_file \in {"absent", "corrupt"} \cup CredStates
    /\ ytu_secrets_exists \in BOOLEAN
    /\ ytu_removable \in BOOLEAN
    /\ ytu_video_exists \in BOOLEAN
    /\ ytu_story_ok \in BOOLEAN
    /\ ytu_pc = "load"
    /\ ytu_creds = "None"
    /\ ytu_service = "none"
    /\ ytu_log = {}
    /\ ytu_requests = 0
    /\ ytu_result = "none"

IdleYouTube ==
    /\ ytu_token_file = "absent"
    /\ ytu_secrets_exists = FALSE
    /\ ytu_removable = FALSE
    /\ ytu_video_exists = FALSE
    /\ ytu_story_ok = FALSE
    /\ ytu_pc = "idle"
    /\ ytu_creds = "None"
    /\ ytu_service = "none"
    /\ ytu_log = {}
    /\ ytu_requests = 0
    /\ ytu_result = "none"

\* get_authenticated_service returns None: if not service: return False
YtReturnsNone ==
    /\ ytu_service' = "None"
    /\ ytu_result' = "False"
    /\ ytu_pc' = "done"

\* an exception caught by upload: return False
YtCaught ==
    /\ ytu_result' = "False"
    /\ ytu_pc' = "done"

\* if os.path.exists(self.token_file): creds = pickle.load(...)
YtLoadToken ==
    /\ ytu_pc = "load"
    /\ IF ytu_token_file = "absent"
       THEN UNCHANGED <<ytu_creds, ytu_token_file, ytu_log>>
       ELSE IF ytu_token_file = "corrupt"
       THEN /\ ytu_token_file' = UnreadableToken(ytu_removable)
            /\ ytu_log' = ytu_log \cup {"token unreadable"}
            /\ UNCHANGED ytu_creds
       ELSE /\ ytu_creds' = ytu_token_file
            /\ ytu_log' = ytu_log \cup {"token loaded"}
            /\ UNCHANGED ytu_token_file
    /\ ytu_pc' = IF NeedsNewCreds(ytu_creds') THEN "refresh" ELSE "build"
    /\ UNCHANGED <<ytuInputs, ytu_service, ytu_requests, ytu_result>>
    /\ UNCHANGED notYtu

\* creds.refresh(Request()); on an exception creds = None
YtRefresh ==
    /\ ytu_pc = "refresh"
    /\ IF Refreshable(ytu_creds)
       THEN \E ok \in BOOLEAN :
                /\ ytu_creds' = IF ok THEN "valid" ELSE "None"
                /\ ytu_log' = ytu_log \cup
                       {IF ok THEN "refreshed" ELSE "refresh failed"}
       ELSE UNCHANGED <<ytu_creds, ytu_log>>
    /\ ytu_pc' = "flow"
    /\ UNCHANGED <<ytuInputs, ytu_token_file, ytu_service, ytu_requests,
                   ytu_result>>
    /\ UNCHANGED notYtu

\* if not creds: return None without the secrets file; run the OAuth flow,
\* return None when it fails
YtFlow ==
    /\ ytu_pc = "flow"
    /\ IF ytu_creds # "None"
       THEN /\ ytu_pc' = "save"
            /\ UNCHANGED <<ytu_creds, ytu_service, ytu_log, ytu_result>>
       ELSE IF ~ytu_secrets_exists
       THEN /\ YtReturnsNone
            /\ ytu_log' = ytu_log \cup {"no secrets file"}
            /\ UNCHANGED ytu_creds
       ELSE \E ok \in BOOLEAN :
                IF ok
                THEN /\ ytu_creds' = "valid"
                     /\ ytu_pc' = "save"
                     /\ ytu_log' = ytu_log \cup {"flow completed"}
                     /\ UNCHANGED <<ytu_service, ytu_result>>
                ELSE /\ YtReturnsNone
                     /\ ytu_log' = ytu_log \cup {"flow failed"}
                     /\ UNCHANGED ytu_creds
    /\ UNCHANGED <<ytuInputs, ytu_token_file, ytu_requests>>
    /\ UNCHANGED notYtu

\* pickle.dump(creds, token_file); a failure is logged as a warning
YtSave ==
    /\ ytu_pc = "save"
    /\ \E written \in BOOLEAN :
           IF written
           THEN /\ ytu_token_file' = ytu_creds
                /\ ytu_log' = ytu_log \cup {"token written"}
           ELSE UNCHANGED <<ytu_token_file, ytu_log>>
    /\ ytu_pc' = "build"
    /\ UNCHANGED <<ytuInputs, ytu_creds, ytu_service, ytu_requests,
                   ytu_result>>
    /\ UNCHANGED notYtu

\* return build("youtube", "v3", credentials=creds); an exception of build
\* is caught by upload
YtBuild ==
    /\ ytu_pc = "build"
    /\ \E built \in BOOLEAN :
           IF built
           THEN /\ ytu_service' = ytu_creds
                /\ ytu_pc' = "insert"
                /\ UNCHANGED ytu_result
           ELSE /\ YtCaught
                /\ UNCHANGED ytu_service
    /\ UNCHANGED <<ytuInputs, ytu_token_file, ytu_creds, ytu_log,
                   ytu_requests>>
    /\ UNCHANGED notYtu

\* 'summary' in story raises when story is no mapping, MediaFileUpload
\* raises when video_path is no file: both are caught
YtInsert ==
    /\ ytu_pc = "insert"
    /\ IF ~ytu_story_ok \/ ~ytu_video_exists
       THEN YtCaught
       ELSE ytu_pc' = "next_chunk" /\ UNCHANGED ytu_result
    /\ UNCHANGED <<ytuInputs, ytu_token_file, ytu_creds, ytu_service, ytu_log,
                   ytu_requests>>
    /\ UNCHANGED notYtu

\* while response is None: status, response = request.next_chunk()
\* the server answers only a request that carries valid credentials
YtNextChunk ==
    /\ ytu_pc = "next_chunk"
    /\ ytu_requests' = ytu_requests + 1
    /\ \E o \in {"more", "response", "raised"} :
           /\ o = "more" => ytu_requests + 1 < MaxChunks
           /\ o # "raised" => ytu_service = "valid"
           /\ IF o = "more"
              THEN UNCHANGED <<ytu_pc, ytu_result>>
              ELSE /\ ytu_result' = IF o = "response" THEN "True" ELSE "False"
                   /\ ytu_pc' = "done"
    /\ UNCHANGED <<ytuInputs, ytu_token_file, ytu_creds, ytu_service, ytu_log>>
    /\ UNCHANGED notYtu

NextYouTube ==
    \/ YtLoadToken
    \/ YtRefresh
    \/ YtFlow
    \/ YtSave
    \/ YtBuild
    \/ YtInsert
    \/ YtNextChunk

-----------------------------------------------------------------------------
(* Specifications *)

\* the bot of src/main.py
Init ==
    /\ InitBot
    /\ IdleCaption /\ IdleStory /\ IdleFFmpeg /\ IdleVideo /\ IdleCompose
    /\ IdleUpload /\ IdleYouTube
Spec == Init /\ [][Next]_vars

InitCaptionSpec ==
    /\ InitCaption
    /\ IdleStory /\ IdleFFmpeg /\ IdleVideo /\ IdleBot /\ IdleCompose
    /\ IdleUpload /\ IdleYouTube
SpecCaption == InitCaptionSpec /\ [][NextCaption]_vars

InitStorySpec ==
    /\ InitStory
    /\ IdleCaption /\ IdleFFmpeg /\ IdleVideo /\ IdleBot /\ IdleCompose
    /\ IdleUpload /\ IdleYouTube
SpecStory == InitStorySpec /\ [][NextStory]_vars

InitFFmpegSpec ==
    /\ InitFFmpeg
    /\ IdleCaption /\ IdleStory /\ IdleVideo /\ IdleBot /\ IdleCompose
    /\ IdleUpload /\ IdleYouTube
SpecFFmpeg == InitFFmpegSpec /\ [][NextFFmpeg]_vars

InitVideoSpec ==
    /\ InitVideo
    /\ IdleCaption /\ IdleStory /\ IdleFFmpeg /\ IdleBot /\ IdleCompose
    /\ IdleUpload /\ IdleYouTube
SpecVideo == InitVideoSpec /\ [][NextVideo]_vars

InitComposeSpec ==
    /\ InitCompose
    /\ IdleCaption /\ IdleStory /\ IdleFFmpeg /\ IdleVideo /\ IdleBot
    /\ IdleUpload /\ IdleYouTube
SpecCompose == InitComposeSpec /\ [][NextCompose]_vars

InitUploadSpec ==
    /\ InitUpload
    /\ IdleCaption /\ IdleStory /\ IdleFFmpeg /\ IdleVideo /\ IdleBot
    /\ IdleCompose /\ IdleYouTube
SpecUpload == InitUploadSpec /\ [][NextUpload]_vars

\* the uploader is a single thread that keeps running: a step that can be
\* taken is taken
SpecUploadLive == SpecUpload /\ WF_vars(NextUpload)

InitYouTubeSpec ==
    /\ InitYouTube
    /\ IdleCaption /\ IdleStory /\ IdleFFmpeg /\ IdleVideo /\ IdleBot
    /\ IdleCompose /\ IdleUpload
SpecYouTube == InitYouTubeSpec /\ [][NextYouTube]_vars

-----------------------------------------------------------------------------
(* Properties of the caption section *)

SplitDone == cpc \in {"estimate", "clips", "compose", "composed", "raised"}
EstimateDone == cpc \in {"clips", "compose", "composed"}

\* the exact sum of the windows' durations, end - start
RECURSIVE SumWindowDurations(_)
SumWindowDurations(tm) ==
    IF tm = <<>> THEN FlZero
    ELSE DyAdd(DySub(Head(tm)[2], Head(tm)[1]), SumWindowDurations(Tail(tm)))

DyAbs(x) == [m |-> Abs(x.m), e |-> x.e]

\* C1 as stated: for a non-empty list of segments the durations of the
\* windows returned by _estimate_audio_timings(segments, D - 3) sum to
\* exactly D - 3.
C1_SumExact ==
    (EstimateDone /\ text_segments # <<>>) =>
        DyEq(SumWindowDurations(timings), StoryDuration(target_duration))

\* C1 amended: the durations sum to D - 3 within floating-point tolerance:
\* the error is at most (n + 2) * 2^-MantissaBits * |D - 3| for n segments.
C1_SumWithinTolerance ==
    (EstimateDone /\ text_segments # <<>>) =>
        LET T == StoryDuration(target_duration)
            err == DyAbs(DySub(SumWindowDurations(timings), T))
        IN  /\ Len(timings) = Len(text_segments)
            /\ DyLeq([m |-> err.m, e |-> err.e + MantissaBits],
                     [m |-> (Len(timings) + 2) * Abs(T.m), e |-> T.e])

\* a narration of 65 seconds whose windows do not sum to exactly 62
C1_Witness ==
    /\ EstimateDone
    /\ target_duration = FlFromInt(65)
    /\ Len(text_segments) >= 2
    /\ ~DyEq(SumWindowDurations(timings), StoryDuration(target_duration))

\* C2 as stated: the caption clips' windows are strictly increasing in start
\* time and do not overlap, the first starts no earlier than the end of the
\* 3-second title window, and the last ends no later than D (D > 0).
C2_WindowsOrdered ==
    (cpc = "composed" /\ DyLess(FlZero, target_duration)) =>
        /\ \A i \in 1..(Len(text_clips) - 1) :
               /\ DyLess(text_clips[i].start, text_clips[i + 1].start)
               /\ DyLeq(text_clips[i].end, text_clips[i + 1].start)
        /\ text_clips # <<>> =>
               /\ DyLeq(FlFromInt(TITLE_SECONDS), text_clips[1].start)
               /\ DyLeq(text_clips[Len(text_clips)].end, target_duration)

\* C3: every segment, wrapped as one block, has at most max_lines lines,
\* except a segment of exactly one sentence that alone wraps to more.
C3_SegmentLines ==
    SplitDone =>
        LET g == SplitSentenceGroups(sentences, MAX_LINES)
        IN  /\ Len(text_segments) = Len(g)
            /\ \A i \in 1..Len(text_segments) :
                   /\ text_segments[i] = Join(g[i])
                   /\ \/ WrappedLines(text_segments[i]) <= MAX_LINES
                      \/ /\ Len(g[i]) = 1
                         /\ WrappedLines(g[i][1]) > MAX_LINES

\* a text with a full segment of several sentences and a segment made of
\* one over-long sentence
C3_Witness ==
    /\ SplitDone
    /\ LET g == SplitSentenceGroups(sentences, MAX_LINES)
       IN  /\ \E i \in 1..Len(g) :
                  Len(g[i]) >= 2 /\ WrappedLines(text_segments[i]) = MAX_LINES
           /\ \E j \in 1..Len(g) :
                  Len(g[j]) = 1 /\ WrappedLines(text_segments[j]) > MAX_LINES

\* C10: for empty narration text the segmenter returns no segment, the
\* timing estimate returns no window and raises nothing, and the compositor
\* composes background and title alone.
C10_EmptyText ==
    sentences = <<>> =>
        /\ cpc # "raised"
        /\ SplitDone => text_segments = <<>>
        /\ EstimateDone => timings = <<>>
        /\ cpc \in {"compose", "composed"} => text_clips = <<>>
        /\ cpc = "composed" => all_clips = <<"background", "title_clip">>

C10_Witness == sentences = <<>> /\ cpc = "composed"

-----------------------------------------------------------------------------
(* Properties of the story generator *)

\* C4 as stated: for both tiers, whenever the text generation step fails
\* (client construction or network error, unparseable, empty or missing
\* response text), get_story raises nothing and returns a story of the
\* tier's fixed fallback list.
C4_FallbackOnFailure ==
    (sg_pc = "done" /\ sg_failed) =>
        /\ sg_result.kind = "returned"
        /\ sg_result.value \in TierFallback(sg_type)

-----------------------------------------------------------------------------
(* Properties of the containerised renderer *)

AnyMissing == \E f \in DOMAIN ff_exists : ~ff_exists[f]

\* C5: if any of the three input files does not exist, create_video fails
\* with a not-found error naming a missing file before any ffprobe or ffmpeg
\* process is started, and returns no output path.
C5_MissingInputFailsFast ==
    AnyMissing =>
        /\ ff_probe_calls = 0
        /\ ff_render_calls = 0
        /\ ff_result.kind # "returned"
        /\ ff_pc \in {"validate", "done"}
        /\ ff_pc = "done" =>
               /\ ff_result.kind = "raised"
               /\ ff_result.value = "FileNotFoundError"
               /\ ff_result.file \in DOMAIN ff_exists
               /\ ~ff_exists[ff_result.file]

\* create_video has failed on a missing background music file alone
C5_Witness ==
    /\ ff_pc = "done"
    /\ ff_exists["Background Video"] /\ ff_exists["Voiceover"]
    /\ ~ff_exists["Background Music"]
    /\ ff_result = FFRaised("FileNotFoundError", "Background Music")

\* C8: once validation has passed, create_video returns the output path
\* only if the render process exited with code 0; if the process exits
\* non-zero, or starting or reading it raises an exception, create_video
\* returns None and raises nothing.
C8_RenderFailureReturnsNone ==
    (ff_pc = "done" /\ ~AnyMissing) =>
        /\ ff_result = FFReturned("output_file") => ff_render = "exit0"
        /\ ff_render \in {"nonzero", "popen_raised", "read_raised"} =>
               ff_result = FFReturned("None")

\* the render process has exited non-zero and create_video returned None
C8_Witness ==
    /\ ff_pc = "done"
    /\ ~AnyMissing
    /\ ff_render = "nonzero"
    /\ ff_result = FFReturned("None")

-----------------------------------------------------------------------------
(* Properties of asset selection and of the long story video *)

\* C6: the asset selector returns only a listed path whose extension,
\* compared case-insensitively, is allowed for the asset kind; when no
\* listed file matches it fails with an explicit error, and no composition
\* is started without the assets it needs.
C6_AssetSelection ==
    /\ vc_background_path # NoFile =>
           /\ vc_background_path \in vc_videos
           /\ Lower(vc_background_path.ext) \in VIDEO_EXTENSIONS
    /\ vc_audio_path # NoFile =>
           /\ vc_audio_path \in vc_audios
           /\ Lower(vc_audio_path.ext) \in AUDIO_EXTENSIONS
    /\ vc_error = "No background videos found!" <=>
           /\ vc_pc = "done"
           /\ vc_tts \in {"none", "completed"}
           /\ \A f \in vc_videos : Lower(f.ext) \notin VIDEO_EXTENSIONS
    /\ vc_error = "No audio tracks found!" <=>
           /\ vc_pc = "done"
           /\ vc_method = "short"
           /\ vc_background_path # NoFile
           /\ \A f \in vc_audios : Lower(f.ext) \notin AUDIO_EXTENSIONS
    /\ vc_error \in {"No background videos found!", "No audio tracks found!"}
           => vc_result = "None"
    /\ vc_compositions > 0 =>
           /\ vc_background_path # NoFile
           /\ vc_method = "short" => vc_audio_path # NoFile

\* a background with an upper-case extension was selected, the audio folder
\* holds files but no audio track, and the short video failed unrendered
C6_Witness ==
    /\ vc_pc = "done"
    /\ vc_method = "short"
    /\ vc_background_path = File("CLIP2", "MP4")
    /\ vc_audios = {File("cover", "jpg"), File("clip", "mp4")}
    /\ vc_error = "No audio tracks found!"
    /\ vc_compositions = 0

\* C9: if speech synthesis produces no narration (no key, a result that is
\* not completed, an exception), create_long_story_video returns None
\* without selecting a background and without starting a composition.
C9_NoNarrationAborts ==
    (vc_method = "long" /\ vc_tts \in TTSFailures) =>
        /\ vc_pc \in {"check_audio", "done"}
        /\ vc_background_path = NoFile
        /\ vc_compositions = 0
        /\ vc_pc = "done" => vc_result = "None"

\* synthesis was canceled and create_long_story_video returned None
C9_Witness ==
    /\ vc_method = "long"
    /\ vc_tts = "canceled"
    /\ vc_videos # {}
    /\ vc_pc = "done"
    /\ vc_result = "None"

-----------------------------------------------------------------------------
(* Properties of the bot *)

\* what a job leaves behind: the program has not crashed, a finished job
\* has returned "True" or "False", "True" only after a successful upload,
\* and "False" after an exception reached the handler of the job
JobOutcome ==
    /\ bot_pc # "crashed"
    /\ job_pc = "returned" =>
           /\ job_result \in {"True", "False"}
           /\ job_result = "True" => "upload succeeded" \in job_log
           /\ job_log \cap {"get_story raised", "os.remove raised"} # {}
                  => job_result = "False"

\* run_pending goes on after a job it ran
LoopGoesOn ==
    bot_pc = "scheduled_job" /\ job_pc = "returned" => bot_pc' = "run_jobs"

\* C7: whatever fails in the content, asset, render, authentication and
\* upload steps, generate_and_upload_short raises nothing and returns a
\* boolean, True only when the upload succeeded; the scheduler loop is
\* never left because of a job and goes on after a failed one.
C7_JobNeverRaises == [](JobOutcome) /\ [][LoopGoesOn]_vars

\* the scheduler loop sleeps after a scheduled job that ended in an
\* exception and returned False
C7_Witness ==
    /\ bot_pc = "sleep"
    /\ ticks >= 1
    /\ job_result = "False"
    /\ "os.remove raised" \in job_log

-----------------------------------------------------------------------------
(* Properties of the compositors *)

BackgroundFitted == cmp_pc \in {"fit_audio", "export"}
AudioFitted == cmp_pc = "export"

\* what with_duration and the loop did to a clip of duration before that
\* had to last wanted
FitOf(before, wanted) ==
    IF before < wanted THEN "looped"
    ELSE IF before > wanted THEN "trimmed" ELSE "unchanged"

\* C11: the short form prepares a background that lasts exactly the
\* requested clip duration (looped if shorter, trimmed if longer, unchanged
\* if equal) and an audio track of that same duration; in the long form the
\* background lasts as long as the narration.
C11_DurationsMatch ==
    /\ BackgroundFitted =>
           /\ cmp_background.duration = TargetDuration
           /\ cmp_background.fit = FitOf(cmp_source.duration, TargetDuration)
    /\ (AudioFitted /\ cmp_form = "short") =>
           /\ cmp_audio.duration = cmp_requested
           /\ cmp_audio.fit = FitOf(cmp_audio_src, cmp_requested)
    /\ (AudioFitted /\ cmp_form = "long") =>
           cmp_background.duration = cmp_audio.duration

\* a short form whose background was shorter and whose audio track was
\* longer than the requested duration
C11_Witness ==
    /\ cmp_form = "short"
    /\ cmp_pc = "export"
    /\ cmp_source.duration < cmp_requested
    /\ cmp_audio_src > cmp_requested
    /\ cmp_background.fit = "looped"
    /\ cmp_audio.fit = "trimmed"

\* C12 as stated: every video a compositor produces is 1080 wide and 1920
\* high at 30 frames per second: the exports of the two moviepy
\* compositors for any source size, and the command create_video builds.
C12_VerticalFrame ==
    cmp_final.kind = "video" =>
        /\ cmp_final.w = FRAME_WIDTH
        /\ cmp_final.h = FRAME_HEIGHT
        /\ cmp_final.fps = EXPORT_FPS
        /\ \A env \in {"prod", "dev"} :
               LET cmd == BuildCmd(env, FALLBACK_DURATION)
               IN  /\ cmd.width = FRAME_WIDTH
                   /\ cmd.height = FRAME_HEIGHT
                   /\ cmd.fps = EXPORT_FPS

-----------------------------------------------------------------------------
(* Further properties of FFMPEGVideoCreator *)

\* create_video has got past the media probe and the duration
CommandStage ==
    /\ ff_pc \in {"popen", "read", "done"}
    /\ ~AnyMissing
    /\ ff_voice_info.kind # "no_format"

\* C13 as stated: the hardware encoder h264_qsv with the device flags is
\* selected exactly when ENV is 'prod'; in every other environment, ENV not
\* set included, libx264 is selected and the render is started.
C13_EncoderByEnv ==
    CommandStage =>
        /\ (ff_cmd.codec = "h264_qsv" /\ ff_cmd.hwaccel) <=> ff_env = "prod"
        /\ ff_env # "prod" =>
               /\ ff_cmd.codec = "libx264"
               /\ ~ff_cmd.hwaccel
               /\ ff_pc \in {"read", "done"} => ff_render_calls = 1

-----------------------------------------------------------------------------
(* Properties of the platform uploaders *)

\* C14: InstagramUploader.upload returns False for every video path and
\* credential configuration; it raises nothing and never reports success.
C14_InstagramAlwaysFalse ==
    up_platform = "Instagram" =>
        /\ up_result \in {"none", "False"}
        /\ up_pc = "done" <=> up_result = "False"
        /\ up_requests = <<>>

\* the placeholder was reached with both credentials configured
C14_Witness ==
    /\ up_platform = "Instagram"
    /\ up_access_token /\ up_account /\ up_file_exists
    /\ up_pc = "done"
    /\ up_result = "False"

\* the place of a phase in the protocol
PhaseRank(phase) ==
    CASE phase = "accounts" -> 1
      [] phase = "start" -> 2
      [] phase = "transfer" -> 3
      [] phase = "finish" -> 4

RequestsOf(phase) == {i \in DOMAIN up_requests : up_requests[i].phase = phase}

\* the requests sent so far follow the protocol
ProtocolOrder ==
    up_platform = "Facebook" =>
        /\ Len(up_responses) = Len(up_requests)
        /\ Cardinality(RequestsOf("accounts")) <= 1
        /\ Cardinality(RequestsOf("start")) <= 1
        /\ Cardinality(RequestsOf("finish")) <= 1
        /\ up_requests # <<>> => PhaseRank(up_requests[1].phase) <= 2
        /\ \A i \in 2..Len(up_requests) :
               LET before == PhaseRank(up_requests[i - 1].phase)
                   now == PhaseRank(up_requests[i].phase)
               IN  /\ up_responses[i - 1].kind = "ok"
                   /\ now = before + 1 \/ (now = before /\ now = 3)
        /\ \A i \in RequestsOf("transfer") :
               up_requests[i].offset = up_responses[i - 1].start
        /\ \A i \in RequestsOf("finish") :
               /\ up_requests[i - 1].phase = "transfer"
               /\ up_responses[i - 1].start = up_responses[i - 1].end
        /\ up_result = "True" =>
               /\ up_pc = "done"
               /\ up_requests[Len(up_requests)].phase = "finish"
               /\ up_responses[Len(up_responses)].kind = "ok"
               /\ up_responses[Len(up_responses)].success
               /\ Cardinality(RequestsOf("start")) = 1
               /\ RequestsOf("transfer") # {}

\* the page token is asked for only when none is cached
ExchangeUnlessCached ==
    (/\ Len(up_requests') = Len(up_requests) + 1
     /\ up_requests'[Len(up_requests')].phase = "accounts")
        => up_page_token = "None"

\* C20: the requests of FacebookUploader.upload come in protocol order:
\* the page-token exchange unless the token is cached, one start, one or
\* more transfers each at the offset the server returned last, at most one
\* finish, sent only after a transfer response with start_offset equal to
\* end_offset; upload returns True only if the finish response reports
\* success.
C20_ProtocolOrder == [](ProtocolOrder) /\ [][ExchangeUnlessCached]_vars

\* an upload that succeeded after the token exchange and two transfers
C20_Witness ==
    /\ up_platform = "Facebook"
    /\ up_result = "True"
    /\ up_requests[1].phase = "accounts"
    /\ Cardinality(RequestsOf("transfer")) = 2

-----------------------------------------------------------------------------
(* Further properties of the bot *)

\* a video is removed only in a job that rendered it and uploaded it
RemovedAfterUpload ==
    /\ disk_videos >= 0
    /\ "video removed" \in job_log =>
           {"rendered", "upload succeeded"} \subseteq job_log
    /\ (/\ job_pc \in {"returned", "idle"}
        /\ "rendered" \in job_log
        /\ "upload succeeded" \notin job_log) => disk_videos >= 1

\* the step that takes a video off the disk follows a successful upload;
\* the step after an upload that failed leaves the disk alone
RemovalStep ==
    /\ disk_videos' < disk_videos =>
           success = "True" /\ "upload succeeded" \in job_log
    /\ (job_pc \in {"uploaded", "except"} /\ success # "True") =>
           disk_videos' = disk_videos

\* C15: generate_and_upload_short deletes a rendered video only after its
\* upload reported success; when the upload fails the rendered file stays
\* on disk.
C15_RemoveOnlyAfterUpload == [](RemovedAfterUpload) /\ [][RemovalStep]_vars

\* two jobs have rendered a video and failed to upload it: both files are
\* still on disk
C15_Witness ==
    /\ job_pc = "returned"
    /\ "rendered" \in job_log
    /\ success = "False"
    /\ job_result = "False"
    /\ disk_videos = 2

\* at most one job runs, and none when the job position is idle
OneJobAtATime ==
    /\ in_progress \in {0, 1}
    /\ in_progress = 0 <=> job_pc = "idle"
    /\ bot_pc \in {"main_job", "scheduled_job"} <=> in_progress = 1

\* a job is started only when no job is running
StartsWhenIdle == in_progress' > in_progress => in_progress = 0

\* C16: within one bot process no two renders or uploads are in progress at
\* once: the scheduler runs each due job to completion before it starts the
\* next, also when several jobs are due at the same run_pending.
C16_JobsRunSequentially == [](OneJobAtATime) /\ [][StartsWhenIdle]_vars

\* a scheduled job is rendering while another due job waits for it
C16_Witness ==
    /\ bot_pc = "scheduled_job"
    /\ job_pc = "create_video"
    /\ pending >= 1
    /\ in_progress = 1

\* C17 as stated: without FONT_PATH the program ends at startup: no
\* generate-and-upload cycle is executed and the scheduler loop is never
\* entered.
C17_NoCycleWithoutFont ==
    ~font_path_set =>
        /\ in_progress = 0
        /\ job_pc = "idle"
        /\ job_log = {}
        /\ bot_pc \in {"main", "exited"}

-----------------------------------------------------------------------------
(* Further properties of the caption segmenter *)

OverLong(sentence) == WrappedLines(sentence) > MAX_LINES

\* the summed wrapped line counts of the sentences of a segment
RECURSIVE SumLines(_)
SumLines(group) ==
    IF group = <<>> THEN 0
    ELSE WrappedLines(Head(group)) + SumLines(Tail(group))

\* C18: a sentence that alone wraps to more than max_lines lines is not
\* split and shares its segment with no other sentence, whatever precedes
\* or follows it.
C18_LongSentenceAlone ==
    SplitDone =>
        LET g == SplitSentenceGroups(sentences, MAX_LINES)
            alone == {j \in 1..Len(g) : Len(g[j]) = 1 /\ OverLong(g[j][1])}
            long == {i \in 1..Len(sentences) : OverLong(sentences[i])}
        IN  /\ Len(text_segments) = Len(g)
            /\ \A j \in 1..Len(g) :
                   (\E k \in 1..Len(g[j]) : OverLong(g[j][k])) =>
                       /\ j \in alone
                       /\ text_segments[j] = g[j][1]
            /\ Cardinality(alone) = Cardinality(long)

\* an over-long sentence between two short ones is the second of three
\* segments
C18_Witness ==
    /\ SplitDone
    /\ Len(sentences) = 3
    /\ ~OverLong(sentences[1])
    /\ OverLong(sentences[2])
    /\ ~OverLong(sentences[3])
    /\ Len(text_segments) = 3
    /\ text_segments[2] = sentences[2]

\* C19: segmentation is greedy and maximal: the summed line count of a
\* segment plus the line count of the first sentence of the next segment
\* exceeds max_lines.
C19_GreedyMaximal ==
    SplitDone =>
        LET g == SplitSentenceGroups(sentences, MAX_LINES)
        IN  /\ Len(text_segments) = Len(g)
            /\ \A j \in 1..(Len(g) - 1) :
                   SumLines(g[j]) + WrappedLines(g[j + 1][1]) > MAX_LINES

\* a segment of two sentences that fills the budget exactly, followed by
\* another segment
C19_Witness ==
    /\ SplitDone
    /\ Len(text_segments) >= 2
    /\ LET g == SplitSentenceGroups(sentences, MAX_LINES)
       IN  Len(g[1]) = 2 /\ SumLines(g[1]) = MAX_LINES

-----------------------------------------------------------------------------
(* Termination of FacebookUploader.upload *)

\* the server's start_offset has increased with every transfer response and
\* has not passed end_offset
ServerProgresses ==
    \A i \in RequestsOf("transfer") :
        up_responses[i].kind = "ok" =>
            /\ up_responses[i].start > up_responses[i - 1].start
            /\ up_responses[i].start <= up_responses[i].end

\* the loop ends on the first response with equal offsets, an error is the
\* last thing that happens, and no request is sent twice
EndsAtOnce ==
    up_platform = "Facebook" =>
        /\ \A i \in RequestsOf("transfer") :
               (/\ i < Len(up_requests)
                /\ up_responses[i].start = up_responses[i].end)
                   => up_requests[i + 1].phase = "finish"
        /\ \A i \in DOMAIN up_responses :
               up_responses[i].kind # "ok" =>
                   /\ i = Len(up_responses)
                   /\ up_pc = "done"
                   /\ up_result = "False"
        /\ ServerProgresses =>
               \A i, j \in DOMAIN up_requests :
                   up_requests[i] = up_requests[j] => i = j

\* C21: FacebookUploader.upload terminates provided the server's
\* start_offset strictly increases with each transfer response until it
\* equals end_offset; the transfer loop ends on the first response with
\* equal offsets, and an error in any phase ends the upload at once with
\* False, no request being sent again.
C21_UploadTerminates ==
    /\ [](EndsAtOnce)
    /\ <>(up_pc = "done" \/ ~ServerProgresses)

\* an upload that ended with False on an error of its second transfer,
\* after the server had made progress
C21_Witness ==
    /\ up_platform = "Facebook"
    /\ up_pc = "done"
    /\ up_result = "False"
    /\ Cardinality(RequestsOf("transfer")) = 2
    /\ up_responses[Len(up_responses)].kind = "error"
    /\ ServerProgresses

-----------------------------------------------------------------------------
(* Properties of the YouTube credentials *)

\* C22: get_authenticated_service writes the token file only after a token
\* refresh or a completed re-authentication flow in the same call; loaded
\* valid credentials leave the file unchanged, and when authentication
\* fails nothing is written.
C22_TokenWrittenOnlyAfterRenewal ==
    /\ "token written" \in job_log =>
           ("refreshed" \in job_log \/ "oauth flow completed" \in job_log)
    /\ yt_svc = "False" => "token written" \notin job_log

\* get_authenticated_service returned None
NoService == ytu_service = "None"

\* the credentials could not be obtained
NoCredentials ==
    "no secrets file" \in ytu_log \/ "flow failed" \in ytu_log

C27_ServiceOnlyWithValidCreds ==
    /\ ytu_service \notin {"none", "None"} => ytu_service = "valid"
    /\ "token written" \in ytu_log => ytu_creds = "valid"

-----------------------------------------------------------------------------
(* Properties of the long story's extension *)

\* the parsed story is shorter than the long tier asks for
ParsedShort ==
    /\ sg_type = "long"
    /\ HasStory(sg_story_data)
    /\ WordCount(sg_story_data) < MIN_LONG_WORDS

\* the extension request was answered by something that is no JSON document
ExtensionUnparsed ==
    \/ sg_response.raised
    \/ sg_response.text = NoText
    \/ JsonLoads(StripFence(sg_response.text)).raised

\* C24: one call of get_long_story_from_gemini sends at most two
\* generation requests: the first, and one extension request only when the
\* parsed story has fewer than 400 words; the extension's result is
\* returned without a further check or request, and the original parsed
\* story is returned when the extension fails.
C24_AtMostOneExtension ==
    /\ sg_requests <= 2
    /\ sg_requests = 2 => ParsedShort
    /\ sg_pc \in {"extend_client", "extend_generate", "extend_parse"} =>
           ParsedShort
    /\ (sg_pc = "done" /\ sg_requests = 2) =>
           sg_result =
               IF ExtensionUnparsed
               THEN Returned(<<"parsed", sg_story_data>>)
               ELSE Returned(<<"extended",
                               JsonLoads(StripFence(sg_response.text)).doc>>)
    /\ (sg_pc = "done" /\ sg_requests = 1 /\ ParsedShort) =>
           sg_result = Returned(<<"parsed", sg_story_data>>)

\* an extension that came back as short as the original and was returned
\* as it was, after two requests
C24_Witness ==
    /\ sg_pc = "done"
    /\ sg_requests = 2
    /\ sg_story_data = "d"
    /\ sg_result = Returned(<<"extended", "d">>)

-----------------------------------------------------------------------------
(* Properties of the code fence *)

\* the document J in a code fence: the opening fence, J with or without a
\* newline on either side, the closing fence, and nothing or whitespace
\* after it
FencedForms(J) ==
    { Fence \o before \o <<J>> \o after \o CloseFence \o trailing :
        before \in {<<>>, <<"\n">>},
        after \in {<<>>, <<"\n">>},
        trailing \in {<<>>, <<"\n">>, <<" ">>} }

\* C25: a generation response that is a valid JSON document J with title
\* and story fields wrapped in a code fence, with or without surrounding
\* newlines or trailing whitespace, is unwrapped and parsed: the pipeline
\* goes on with the parsed J and not with a fallback story.
C25_FencedJsonParsed ==
    \A J \in {"D", "d"} :
        (/\ sg_requests = 1
         /\ sg_pc \notin {"parse"}
         /\ ~sg_response.raised
         /\ sg_response.text \in FencedForms(J))
            => (sg_story_data = J /\ ~sg_failed)

-----------------------------------------------------------------------------
(* Properties of the render duration *)

\* C26: the duration given to the renderer is determined by the narration
\* alone: the voiceover's duration truncated to whole seconds plus 5 when
\* the probe of the voiceover succeeded, 305 otherwise, whatever duration
\* the caller passed.
C26_DurationFromNarration ==
    ff_cmd # NoCmd =>
        ff_cmd.t = IF ff_voice_info.kind = "info"
                   THEN (ff_voice_info.tenths \div 10) + 5
                   ELSE 305

\* a command built for a 62.7 s voiceover by a caller who asked for 30 s
C26_Witness ==
    /\ ff_cmd # NoCmd
    /\ ff_duration_arg = 30
    /\ ff_voice_info.kind = "info"
    /\ ff_voice_info.tenths = 627
    /\ ff_cmd.t = 67

-----------------------------------------------------------------------------
(* Properties of a cycle whose video generation failed *)

\* what the upload stage does
UploadStageEvents ==
    {"upload stage entered", "refreshed", "refresh failed",
     "oauth flow completed", "oauth flow failed", "token written",
     "upload succeeded"}

\* C28: in generate_and_upload_short, when the video generation fails
\* (generate_short returns False or None) the upload stage is not entered:
\* no credential load, token refresh, OAuth flow, token-file write or
\* upload request happens in that cycle, and the job returns False.
C28_NoUploadAfterFailedGeneration ==
    "generation failed" \in job_log =>
        /\ job_log \cap UploadStageEvents = {}
        /\ job_pc = "returned" => job_result = "False"

-----------------------------------------------------------------------------
(* Properties of the segmenter's text *)

\* the number of words before the end of each sentence
SentenceEnds ==
    { Len(Join(SubSeq(sentences, 1, k))) : k \in 0..Len(sentences) }

\* C29: _split_text_into_segments neither loses, duplicates nor reorders
\* text: the segments concatenated in order are the sentences in order,
\* every sentence lies in exactly one segment, and no segment is empty.
C29_TextPreserved ==
    SplitDone =>
        /\ Join(text_segments) = Join(sentences)
        /\ \A i \in 1..Len(text_segments) :
               /\ text_segments[i] # <<>>
               /\ Len(Join(SubSeq(text_segments, 1, i))) \in SentenceEnds

\* a text that says the same sentence twice, split into two segments
C29_Witness ==
    /\ SplitDone
    /\ Len(sentences) = 3
    /\ sentences[1] = sentences[2]
    /\ Len(text_segments) = 2

-----------------------------------------------------------------------------
(* Properties of the temporary narration file *)

\* C30: once the narration has been synthesized to a temporary file, that
\* file no longer exists when create_long_story_video returns, in every
\* outcome: successful render, missing background asset, or failure of the
\* composition or render.
C30_TempAudioRemoved ==
    (/\ vc_method = "long"
     /\ vc_tts = "completed"
     /\ vc_pc = "done")
        => ~vc_temp_audio

====
